---- MODULE Spec2Model ----
(***************************************************************************)
(* A model of the codis proxy core: the pipelined backend connection       *)
(* (pkg/proxy/router backend.go), the request (request.go), the router     *)
(* (router.go), the RESP decoder and encoder (pkg/proxy/redis), and, where  *)
(* the repository's source is not at hand, the slot latch and the client   *)
(* session as the specification describes them.                            *)
(***************************************************************************)
EXTENDS Integers, Sequences, FiniteSets, TLC

(***************************************************************************)
(* Bounds of the model.                                                    *)
(***************************************************************************)
\* client requests 1..NumReq
NumReq == 3
\* connection rounds of one BackendConn: rounds 0..MaxRound-1
MaxRound == 2
\* capacity of BackendConn.input (1024 in the source), scaled down
InputCap == 2
\* capacity of a round's tasks channel (4096 in the source), scaled down
TasksCap == 2
\* most sub-requests (keys) of one client command
MaxKeys == 2
\* capacity of the session's pending queue (session_max_pipeline), scaled down
PendingCap == 2
\* FlushPolicy.MaxBuffered
MaxBuffered == 256
\* bits of an int64 (64 in the source)
IntBits == 24
\* integers taken on either side of each boundary of itoa
ItoaSpan == 12
\* the offset and the length of the table of itoa: 1024 and 1024*128+1024
ItoaOffset == 1024
ItoaLen == 132096
\* ephemeral nodes of one EtcdClient, each with a refresher
NumRefresher == 2
\* Topom instances that share one store and one product name
NumTopom == 3
\* FlushPolicy.MaxIntervalMs as loopWriter sets it
MaxIntervalMs == 300

\* slots of the router (models.MaxSlotNum, 1024 in the source), scaled down
MaxSlotNum == 2
\* backend addresses 1..NumAddr; 0 is the empty string
NumAddr == 2
\* SharedBackendConn objects the router creates in one run
MaxConns == 2
\* requests the clients hand to Router.Dispatch in one run
NumDispatch == 1
\* calls of BackendConn.Close on one connection in one run
MaxClose == 2
\* pieces (frames, lines, fragments) the Decoder's input is made of
MaxChunks == 2
\* calls made on one Decoder, or on one Encoder
MaxCalls == 3
\* len(buf) of the buffered Writer (1024 and more in the source)
WriterSize == 2
\* len(buf) of the buffered Reader (1024 and more in the source)
ReaderSize == 2
\* calls of the io.Writer, or of the io.Reader, whose answer is chosen
MaxPlan == 2
\* bytes of the longest line read before its delimiter
MaxLine == 5
\* size of the Encoder's write buffer (1024 and more in the source)
BufSize == 4
\* most bytes the underlying writer accepts before it fails, when it fails
MaxAccepted == 8

Reqs == 1..NumReq
DispatchReqs == 1..NumDispatch
\* the SLOTSMGRTTAGONE request slot.forward synthesizes for request r
MigOf(r) == NumReq + r
AllReqs == 1..(2 * NumReq)
\* a PING request of KeepAlive: a fresh object nobody else holds
PingReq == 0
\* the PING request of the KeepAlive call that runs beside the writer and the
\* pushing goroutines: NewRequest("PING", ..., nil)
KeepAliveReq == 2 * NumReq
Rounds == 0..(MaxRound - 1)
\* the BackendConn that SpecBackend runs in detail
BC == 1
Conns == 1..MaxConns
Slots == 0..(MaxSlotNum - 1)
Addrs == 1..NumAddr
NoAddr == 0
NoConn == 0

\* Requests 1 and 2 are sub-requests of one parent (SubRequest shares Batch and
\* Broken); every other request is a request of its own.
GroupOf(r) == IF r <= 2 THEN 1 ELSE r - 1
Groups == {GroupOf(r) : r \in AllReqs}
\* NewRequest(opstr, multi, nil): the last group carries no Broken flag
HasBroken(g) == g < NumReq - 1
\* requests forwarded through a slot carry r.slot (here slot 0); the others
\* (migration requests, PING) have r.slot = nil, written -1
NoSlot == -1
SlotOfReq(r) == IF r = NumReq THEN NoSlot ELSE 0

\* who completed a request: a round's reader (the round number), the writer,
\* or nobody yet
Writer == MaxRound
Nobody == MaxRound + 1

Nil == "nil"
ErrDiscardedRequest == "ErrDiscardedRequest"
DialErr == "DialErr"
EncodeErr == "EncodeErr"
FlushErr == "FlushErr"
ReadErr == "ReadErr"
ErrClosedRouter == "ErrClosedRouter"
ErrInvalidSlotId == "ErrInvalidSlotId"
ErrSlotIsNotReady == "ErrSlotIsNotReady"

VARIABLES
  \* ---- requests (request.go)
  req,        \* req[r] = [resp, err, n]: Response.Resp (0 = nil, else the id of
              \* the request whose command the server answered), Response.Err,
              \* and how many times setResponse ran for r
  rslot,      \* r.slot: the slot whose wait counter r holds, or NoSlot
  batch,      \* batch[g]: the sync.WaitGroup counter r.Batch points to
  broken,     \* broken[g]: the atomic2.Bool r.Broken points to
  wait,       \* wait[s]: slot s's sync.WaitGroup counter
  \* ---- BackendConn (backend.go)
  input,      \* input[c]: the buffered channel bc.input
  stopped,    \* stopped[c]: bc.input has been closed (stop.Do ran)
  wpc,        \* position of Run / loopWriter
  wr,         \* loopWriter's r (0: none)
  werr,       \* loopWriter's named result err
  round,      \* Run's k
  wi,         \* the deferred drain's i
  nbuffered,  \* FlushPolicy.nbuffered
  wire,       \* wire[k]: requests encoded onto round k's connection, in order
  flushed,    \* flushed[k]: how many of wire[k] have reached the socket
  tasks,      \* tasks[k]: round k's tasks channel
  tasksClosed,\* tasks[k] has been closed
  rpc,        \* position of round k's loopReader
  rerr,       \* round k's loopReader named result err
  ndec,       \* ndec[k]: responses round k's reader has decoded
  \* ---- history
  pushed,     \* requests in the order PushBack sent them onto input[BC]
  completed,  \* requests in the order setResponse completed them
  by,         \* by[r]: who completed r: a round number, Writer, or Nobody
  \* ---- Router (router.go) and its slots
  closed,     \* Router.closed
  ctl,        \* the control call that holds Router.mu, and where it stands
  ret,        \* the control call that returned in the last step (or NoRet)
  pool,       \* pool[a]: the SharedBackendConn of address a, or NoConn
  nconn,      \* SharedBackendConn objects created so far (1..nconn)
  caddr,      \* caddr[c]: BackendConn.addr
  refcnt,     \* refcnt[c]: SharedBackendConn.refcnt
  nclose,     \* nclose[c]: how many times BackendConn.Close was called on c
  panicked,   \* a log.Panicf, or a send on a closed channel, was reached
  slots,      \* slots[s] = [addr, bc, from, mbc, hold, pending]
  fpc,        \* fpc[r]: where Dispatch(r) / slot.forward stands
  fslot,      \* fslot[r]: the slot Dispatch(r) hashed to
  fkey,       \* fkey[r]: r's hash key is non-null
  fclosed,    \* fclosed[r]: Router.Close had returned when Dispatch(r) was called
  dret,       \* dret[r]: what Dispatch(r) returned
  \* ---- Session (as specified: the reader and writer loops of one client)
  sdecoded,   \* commands in the order the session reader decoded them
  spc,        \* the session reader: "decode" or "dispatch"
  sneed,      \* sub-requests of the reader's current command still to dispatch
  spending,   \* the session's in-order queue of pending requests
  sbatch,     \* sbatch[c]: the batch counter of command c
  sresp,      \* sresp[c]: command c has a local (policy) error response
  swcur,      \* the request the session writer popped and waits on (0: none)
  swritten,   \* commands in the order their replies were written
  \* ---- one call of BackendConn.KeepAlive by a goroutine of its own
  kpc,        \* where the call stands: "idle", "push" (between the check of
              \* len(bc.input) and PushBack), "done"
  kret,       \* what the call returned: "none", "true", "false"
  \* ---- one redis.Decoder (decoder.go) and the input it reads
  dstream,    \* the bytes the underlying io.Reader delivers
  dpos,       \* how many of them the Decoder's Reader has consumed
  dErr,       \* Decoder.Err
  dncall,     \* calls of Decode / DecodeMultiBulk so far
  dlast,      \* the last call: [op, err, val]
  dfailed,    \* some call has returned an error
  \* ---- one redis.Encoder (encoder.go), its bufio.Writer and its socket
  ew,         \* the bufio.Writer e.bw: [buf, out, err]
  ecap,       \* bytes the underlying writer accepts before it fails
  eErr,       \* Encoder.Err
  encall,     \* calls of Encode / EncodeMultiBulk / Flush so far
  elast,      \* the last call: [op, err]
  efailed,    \* some call has returned an error
  \* ---- one call of a function of the command classifier (mapper.go), or
  \* ---- one value on its way through Encode and Decode
  farg,       \* the argument
  fres,       \* the result (NoRes before the call)
  \* ---- one buffered Writer (bufio.go) and the io.Writer under it
  wtr,        \* [buf, err, out, nwr, plan, failed]: the bytes of buf[:end],
              \* Writer.err, the bytes the io.Writer has accepted, how many
              \* times its Write was called, what its next calls will
              \* answer, and whether one of them failed or was short
  wlast,      \* the last call: [op, nn, err, pre]
  wncall,     \* calls of Write / WriteByte / WriteString / Flush so far
  \* ---- one buffered Reader (bufio.go) and the io.Reader under it
  rdr,        \* [buf, rpos, wpos, err, stream, off, plan, nrd]: Reader.buf,
              \* rpos, wpos and err, the bytes of the io.Reader, how many
              \* of them it has delivered, how many its next calls will
              \* deliver, and how many times its Read was called
  rlast,      \* the last call: [op, b, err, n, pos, maxlen, was]
  rncall,     \* calls of the Reader's methods so far
  \* ---- one FlushPolicy in the loop of a backend writer (backend.go)
  fp,         \* [pc, nbuffered, ninput, since, ntasks, r, seen]
  \* ---- the coordinators (topom.go) that share one store
  tp,
  \* ---- one EtcdClient (etcdclient.go) and its ephemeral nodes
  et

bvars == <<req, rslot, batch, broken, wait, input, stopped, wpc, wr, werr, round,
           wi, nbuffered, wire, flushed, tasks, tasksClosed, rpc, rerr, ndec,
           pushed, completed, by>>

svars == <<sdecoded, spc, sneed, spending, sbatch, sresp, swcur, swritten>>

rvars == <<closed, ctl, ret, pool, nconn, caddr, refcnt, nclose, panicked,
           slots, fpc, fslot, fkey, fclosed, dret>>

\* what the backend's steps, and the session's, leave alone
kvars == <<kpc, kret>>

\* what belongs to none of the backend, the session and the router
dvars == <<dstream, dpos, dErr, dncall, dlast, dfailed>>
evars == <<ew, ecap, eErr, encall, elast, efailed>>
fvars == <<farg, fres>>
wtvars == <<wtr, wlast, wncall>>
rdvars == <<rdr, rlast, rncall>>
ovars == <<fp, tp, et>>
xvars == <<kvars, dvars, evars, fvars, wtvars, rdvars, ovars>>

nonBackendVars == <<svars, rvars, xvars>>
nonSessionVars == <<bvars, rvars, xvars>>

vars == <<bvars, svars, rvars, xvars>>

(***************************************************************************)
(* request.go                                                              *)
(***************************************************************************)
\* Request.IsBroken
IsBroken(r) == HasBroken(GroupOf(r)) /\ broken[GroupOf(r)]

\* Request.Break, as a next value of broken
Break(r) ==
  IF HasBroken(GroupOf(r)) THEN [broken EXCEPT ![GroupOf(r)] = TRUE] ELSE broken

(***************************************************************************)
(* backend.go                                                              *)
(***************************************************************************)
\* setResponse returning early on an error, before the counters are released
setResponse_earlyReturn(r, resp, err, who) ==
  /\ req' = [req EXCEPT ![r] = [resp |-> resp, err |-> err, n |-> @.n + 1]]
  /\ broken' = IF err # Nil THEN Break(r) ELSE broken
  /\ wait' = IF rslot[r] # NoSlot /\ err = Nil
             THEN [wait EXCEPT ![rslot[r]] = @ - 1] ELSE wait
  /\ batch' = IF err = Nil THEN [batch EXCEPT ![GroupOf(r)] = @ - 1] ELSE batch
  /\ completed' = Append(completed, r)
  /\ by' = [by EXCEPT ![r] = who]

\* setResponse without the r.Break() of an error completion
setResponse_noBreak(r, resp, err, who) ==
  /\ req' = [req EXCEPT ![r] = [resp |-> resp, err |-> err, n |-> @.n + 1]]
  /\ broken' = broken
  /\ wait' = IF rslot[r] # NoSlot
             THEN [wait EXCEPT ![rslot[r]] = @ - 1] ELSE wait
  /\ batch' = [batch EXCEPT ![GroupOf(r)] = @ - 1]
  /\ completed' = Append(completed, r)
  /\ by' = [by EXCEPT ![r] = who]

\* BackendConn.setResponse(r, resp, err), run by who
setResponse(r, resp, err, who) ==
  /\ req' = [req EXCEPT ![r] = [resp |-> resp, err |-> err, n |-> @.n + 1]]
  /\ broken' = IF err # Nil THEN Break(r) ELSE broken
  /\ wait' = IF rslot[r] # NoSlot
             THEN [wait EXCEPT ![rslot[r]] = @ - 1] ELSE wait
  /\ batch' = [batch EXCEPT ![GroupOf(r)] = @ - 1]
  /\ completed' = Append(completed, r)
  /\ by' = [by EXCEPT ![r] = who]

\* BackendConn.PushBack(r) on connection c
PushBack(c, r) ==
  /\ Len(input[c]) < InputCap
  /\ batch' = [batch EXCEPT ![GroupOf(r)] = @ + 1]
  /\ input' = [input EXCEPT ![c] = Append(@, r)]

\* BackendConn.Close
BackendConnClose(c) == stopped' = [stopped EXCEPT ![c] = TRUE]

\* the writer may fail a round only while another round is left in the model
CanFail == round + 1 < MaxRound

\* redis.Conn of round k has been closed (loopReader's deferred c.Close)
ConnClosed(k) == rpc[k] \in {"drain", "done"}

\* FlushPolicy.NeedFlush, the part that does not read the clock
NeedFlush == nbuffered # 0 /\ nbuffered > MaxBuffered

\* FlushPolicy.Flush(force) succeeding: either nothing is flushed, or the
\* buffer reaches the socket and nbuffered is reset.  The write interval
\* (MaxIntervalMs) may have elapsed whenever something is buffered.
FlushOk(force) ==
  \/ /\ ~force /\ ~NeedFlush
     /\ UNCHANGED <<flushed, nbuffered>>
  \/ /\ force \/ nbuffered # 0
     /\ flushed[round] = Len(wire[round]) \/ ~ConnClosed(round)
     /\ flushed' = [flushed EXCEPT ![round] = Len(wire[round])]
     /\ nbuffered' = 0

\* FlushPolicy.Flush(force) failing: only a write can fail, and it may have
\* sent part of the buffer
FlushFail(force) ==
  /\ force \/ nbuffered # 0
  /\ flushed[round] < Len(wire[round])
  /\ CanFail
  /\ \E n \in flushed[round]..Len(wire[round]) :
       flushed' = [flushed EXCEPT ![round] = n]
  /\ UNCHANGED nbuffered

\* the first receive taking an empty input for a closed one
loopWriter_first_exitOnEmpty ==
  /\ UNCHANGED nonBackendVars
  /\ wpc = "recv0"
  /\ \/ /\ input[BC] # <<>>
        /\ wr' = Head(input[BC])
        /\ input' = [input EXCEPT ![BC] = Tail(@)]
        /\ wpc' = "dial"
     \/ /\ input[BC] = <<>>
        /\ wpc' = "exit"
        /\ UNCHANGED <<wr, input>>
  /\ UNCHANGED <<req, rslot, batch, broken, wait, stopped, werr, round, wi,
                 nbuffered, wire, flushed, tasks, tasksClosed, rpc, rerr, ndec,
                 pushed, completed, by>>

\* loopWriter line 99: r, ok := <-bc.input, before the connection is dialled
loopWriter_first ==
  /\ UNCHANGED nonBackendVars
  /\ wpc = "recv0"
  /\ \/ /\ input[BC] # <<>>
        /\ wr' = Head(input[BC])
        /\ input' = [input EXCEPT ![BC] = Tail(@)]
        /\ wpc' = "dial"
     \/ /\ input[BC] = <<>> /\ stopped[BC]
        /\ wpc' = "exit"
        /\ UNCHANGED <<wr, input>>
  /\ UNCHANGED <<req, rslot, batch, broken, wait, stopped, werr, round, wi,
                 nbuffered, wire, flushed, tasks, tasksClosed, rpc, rerr, ndec,
                 pushed, completed, by>>

\* loopWriter lines 101-112: newBackendReader (dial, AUTH, go loopReader)
loopWriter_dial ==
  /\ UNCHANGED nonBackendVars
  /\ wpc = "dial"
  /\ \/ /\ rpc' = [rpc EXCEPT ![round] = "run"]
        /\ nbuffered' = 0
        /\ wpc' = "loop"
        /\ UNCHANGED <<req, broken, wait, batch, completed, by, werr, wi>>
     \/ /\ CanFail
        /\ setResponse(wr, 0, DialErr, Writer)
        /\ werr' = DialErr
        /\ wi' = Len(input[BC])
        /\ wpc' = "drain"
        /\ UNCHANGED <<rpc, nbuffered>>
  /\ UNCHANGED <<rslot, input, stopped, wr, round, wire, flushed, tasks,
                 tasksClosed, rerr, ndec, pushed>>

\* the encode step without the r.IsBroken() test of line 115
loopWriter_encode_anyway ==
  /\ UNCHANGED nonBackendVars
  /\ wpc = "loop"
  /\ \/ /\ wire' = [wire EXCEPT ![round] = Append(@, wr)]
        /\ nbuffered' = nbuffered + 1
        /\ wpc' = "flush"
        /\ UNCHANGED <<req, broken, wait, batch, completed, by, werr>>
     \/ /\ CanFail
        /\ setResponse(wr, 0, EncodeErr, Writer)
        /\ werr' = EncodeErr
        /\ wpc' = "fail"
        /\ UNCHANGED <<wire, nbuffered>>
  /\ UNCHANGED <<rslot, input, stopped, wr, round, wi, flushed, tasks,
                 tasksClosed, rpc, rerr, ndec, pushed>>

\* loopWriter lines 115-118: a request that is not broken is encoded
loopWriter_encode ==
  /\ UNCHANGED nonBackendVars
  /\ wpc = "loop"
  /\ ~IsBroken(wr)
  /\ \/ /\ wire' = [wire EXCEPT ![round] = Append(@, wr)]
        /\ nbuffered' = nbuffered + 1
        /\ wpc' = "flush"
        /\ UNCHANGED <<req, broken, wait, batch, completed, by, werr>>
     \/ /\ CanFail
        /\ setResponse(wr, 0, EncodeErr, Writer)
        /\ werr' = EncodeErr
        /\ wpc' = "fail"
        /\ UNCHANGED <<wire, nbuffered>>
  /\ UNCHANGED <<rslot, input, stopped, wr, round, wi, flushed, tasks,
                 tasksClosed, rpc, rerr, ndec, pushed>>

\* the flush after the encode never forced: p.Flush(false)
loopWriter_flush_unforced ==
  /\ UNCHANGED nonBackendVars
  /\ wpc = "flush"
  /\ \/ /\ FlushOk(FALSE)
        /\ wpc' = "send"
        /\ UNCHANGED <<req, broken, wait, batch, completed, by, werr>>
     \/ /\ FlushFail(FALSE)
        /\ setResponse(wr, 0, FlushErr, Writer)
        /\ werr' = FlushErr
        /\ wpc' = "fail"
  /\ UNCHANGED <<rslot, input, stopped, wr, round, wi, wire, tasks,
                 tasksClosed, rpc, rerr, ndec, pushed>>

\* loopWriter lines 119-121: p.Flush(len(bc.input) == 0) after the encode
loopWriter_flush ==
  /\ UNCHANGED nonBackendVars
  /\ wpc = "flush"
  /\ \/ /\ FlushOk(Len(input[BC]) = 0)
        /\ wpc' = "send"
        /\ UNCHANGED <<req, broken, wait, batch, completed, by, werr>>
     \/ /\ FlushFail(Len(input[BC]) = 0)
        /\ setResponse(wr, 0, FlushErr, Writer)
        /\ werr' = FlushErr
        /\ wpc' = "fail"
  /\ UNCHANGED <<rslot, input, stopped, wr, round, wi, wire, tasks,
                 tasksClosed, rpc, rerr, ndec, pushed>>

\* tasks <- r putting r ahead of the requests already waiting
loopWriter_send_front ==
  /\ UNCHANGED nonBackendVars
  /\ wpc = "send"
  /\ Len(tasks[round]) < TasksCap
  /\ tasks' = [tasks EXCEPT ![round] = <<wr>> \o @]
  /\ wpc' = "recv"
  /\ UNCHANGED <<req, rslot, batch, broken, wait, input, stopped, wr, werr,
                 round, wi, nbuffered, wire, flushed, tasksClosed, rpc, rerr,
                 ndec, pushed, completed, by>>

\* loopWriter line 122: tasks <- r
loopWriter_send ==
  /\ UNCHANGED nonBackendVars
  /\ wpc = "send"
  /\ Len(tasks[round]) < TasksCap
  /\ tasks' = [tasks EXCEPT ![round] = Append(@, wr)]
  /\ wpc' = "recv"
  /\ UNCHANGED <<req, rslot, batch, broken, wait, input, stopped, wr, werr,
                 round, wi, nbuffered, wire, flushed, tasksClosed, rpc, rerr,
                 ndec, pushed, completed, by>>

\* a broken request skipped by the encoder but still handed to the reader
loopWriter_discard_handoff ==
  /\ UNCHANGED nonBackendVars
  /\ wpc = "loop"
  /\ IsBroken(wr)
  /\ Len(tasks[round]) < TasksCap
  /\ tasks' = [tasks EXCEPT ![round] = Append(@, wr)]
  /\ wpc' = "recv"
  /\ UNCHANGED <<req, rslot, batch, broken, wait, input, stopped, wr, werr,
                 round, wi, nbuffered, wire, flushed, tasksClosed, rpc, rerr,
                 ndec, pushed, completed, by>>

\* loopWriter lines 123-128: a broken request is flushed past and discarded
loopWriter_discard ==
  /\ UNCHANGED nonBackendVars
  /\ wpc = "loop"
  /\ IsBroken(wr)
  /\ \/ /\ FlushOk(Len(input[BC]) = 0)
        /\ setResponse(wr, 0, ErrDiscardedRequest, Writer)
        /\ wpc' = "recv"
        /\ UNCHANGED werr
     \/ /\ FlushFail(Len(input[BC]) = 0)
        /\ setResponse(wr, 0, FlushErr, Writer)
        /\ werr' = FlushErr
        /\ wpc' = "fail"
  /\ UNCHANGED <<rslot, input, stopped, wr, round, wi, wire, tasks,
                 tasksClosed, rpc, rerr, ndec, pushed>>

\* loopWriter line 129: r, ok = <-bc.input; on !ok return nil, and the
\* deferred close(tasks) and (empty) drain run
loopWriter_recv ==
  /\ UNCHANGED nonBackendVars
  /\ wpc = "recv"
  /\ \/ /\ input[BC] # <<>>
        /\ wr' = Head(input[BC])
        /\ input' = [input EXCEPT ![BC] = Tail(@)]
        /\ wpc' = "loop"
        /\ UNCHANGED tasksClosed
     \/ /\ input[BC] = <<>> /\ stopped[BC]
        /\ tasksClosed' = [tasksClosed EXCEPT ![round] = TRUE]
        /\ wpc' = "exit"
        /\ UNCHANGED <<wr, input>>
  /\ UNCHANGED <<req, rslot, batch, broken, wait, stopped, werr, round, wi,
                 nbuffered, wire, flushed, tasks, rpc, rerr, ndec,
                 pushed, completed, by>>

\* loopWriter line 105 and 93: after a failed return, the deferred
\* close(tasks) runs, then the deferred drain reads len(bc.input)
loopWriter_fail ==
  /\ UNCHANGED nonBackendVars
  /\ wpc = "fail"
  /\ tasksClosed' = [tasksClosed EXCEPT ![round] = TRUE]
  /\ wi' = Len(input[BC])
  /\ wpc' = "drain"
  /\ UNCHANGED <<req, rslot, batch, broken, wait, input, stopped, wr, werr,
                 round, nbuffered, wire, flushed, tasks, rpc, rerr, ndec,
                 pushed, completed, by>>

\* the deferred drain completing with a nil error (an err that shadows the
\* named result)
loopWriter_drain_nilErr ==
  /\ UNCHANGED nonBackendVars
  /\ wpc = "drain"
  /\ wi # 0
  /\ setResponse(Head(input[BC]), 0, Nil, Writer)
  /\ input' = [input EXCEPT ![BC] = Tail(@)]
  /\ wi' = wi - 1
  /\ UNCHANGED <<rslot, stopped, wpc, wr, werr, round, nbuffered, wire,
                 flushed, tasks, tasksClosed, rpc, rerr, ndec, pushed>>

\* loopWriter lines 93-96: one iteration of the deferred drain
loopWriter_drain ==
  /\ UNCHANGED nonBackendVars
  /\ wpc = "drain"
  /\ wi # 0
  /\ setResponse(Head(input[BC]), 0, werr, Writer)
  /\ input' = [input EXCEPT ![BC] = Tail(@)]
  /\ wi' = wi - 1
  /\ UNCHANGED <<rslot, stopped, wpc, wr, werr, round, nbuffered, wire,
                 flushed, tasks, tasksClosed, rpc, rerr, ndec, pushed>>

\* Run lines 36-42: loopWriter returned an error; sleep, then the next round
Run ==
  /\ UNCHANGED nonBackendVars
  /\ wpc = "drain"
  /\ wi = 0
  /\ round' = round + 1
  /\ wpc' = "recv0"
  /\ wr' = 0
  /\ werr' = Nil
  /\ UNCHANGED <<req, rslot, batch, broken, wait, input, stopped, wi,
                 nbuffered, wire, flushed, tasks, tasksClosed, rpc, rerr, ndec,
                 pushed, completed, by>>

\* loopReader lines 81-86: take the next request from tasks, decode one
\* response (the server answers the commands of the connection in order)
loopReader_reply(k) ==
  /\ UNCHANGED nonBackendVars
  /\ rpc[k] = "run"
  /\ tasks[k] # <<>>
  /\ ndec[k] < flushed[k]
  /\ setResponse(Head(tasks[k]), wire[k][ndec[k] + 1], Nil, k)
  /\ tasks' = [tasks EXCEPT ![k] = Tail(@)]
  /\ ndec' = [ndec EXCEPT ![k] = @ + 1]
  /\ UNCHANGED <<rslot, input, stopped, wpc, wr, werr, round, wi, nbuffered,
                 wire, flushed, tasksClosed, rpc, rerr, pushed>>

\* loopReader lines 82-85: Decode fails; the deferred c.Close() runs
loopReader_error(k) ==
  /\ UNCHANGED nonBackendVars
  /\ rpc[k] = "run"
  /\ tasks[k] # <<>>
  /\ k + 1 < MaxRound
  /\ setResponse(Head(tasks[k]), 0, ReadErr, k)
  /\ tasks' = [tasks EXCEPT ![k] = Tail(@)]
  /\ rerr' = [rerr EXCEPT ![k] = ReadErr]
  /\ rpc' = [rpc EXCEPT ![k] = "drain"]
  /\ UNCHANGED <<rslot, input, stopped, wpc, wr, werr, round, wi, nbuffered,
                 wire, flushed, tasksClosed, ndec, pushed>>

\* the reader's deferred drain completing with a nil error (an err that
\* shadows the named result)
loopReader_drain_nilErr(k) ==
  /\ UNCHANGED nonBackendVars
  /\ rpc[k] = "drain"
  /\ tasks[k] # <<>>
  /\ setResponse(Head(tasks[k]), 0, Nil, k)
  /\ tasks' = [tasks EXCEPT ![k] = Tail(@)]
  /\ UNCHANGED <<rslot, input, stopped, wpc, wr, werr, round, wi, nbuffered,
                 wire, flushed, tasksClosed, rpc, rerr, ndec, pushed>>

\* loopReader lines 76-78: the deferred drain of tasks
loopReader_drain(k) ==
  /\ UNCHANGED nonBackendVars
  /\ rpc[k] = "drain"
  /\ tasks[k] # <<>>
  /\ setResponse(Head(tasks[k]), 0, rerr[k], k)
  /\ tasks' = [tasks EXCEPT ![k] = Tail(@)]
  /\ UNCHANGED <<rslot, input, stopped, wpc, wr, werr, round, wi, nbuffered,
                 wire, flushed, tasksClosed, rpc, rerr, ndec, pushed>>

\* loopReader: tasks is closed and empty, both range loops end
loopReader_exit(k) ==
  /\ UNCHANGED nonBackendVars
  /\ rpc[k] \in {"run", "drain"}
  /\ tasks[k] = <<>> /\ tasksClosed[k]
  /\ rpc' = [rpc EXCEPT ![k] = "done"]
  /\ UNCHANGED <<req, rslot, batch, broken, wait, input, stopped, wpc, wr,
                 werr, round, wi, nbuffered, wire, flushed, tasks, tasksClosed,
                 rerr, ndec, pushed, completed, by>>

(***************************************************************************)
(* The callers of one BackendConn: slot.forward and the router             *)
(***************************************************************************)
\* a request is handed to PushBack (by slot.forward, which sets r.slot and
\* adds to the slot's wait counter first, or by KeepAlive / slotsmgrt)
CallPushBack(r) ==
  /\ UNCHANGED nonBackendVars
  /\ \A i \in 1..Len(pushed) : pushed[i] # r
  /\ ~stopped[BC]
  /\ PushBack(BC, r)
  /\ rslot' = [rslot EXCEPT ![r] = SlotOfReq(r)]
  /\ wait' = IF SlotOfReq(r) # NoSlot
             THEN [wait EXCEPT ![SlotOfReq(r)] = @ + 1] ELSE wait
  /\ pushed' = Append(pushed, r)
  /\ UNCHANGED <<req, broken, stopped, wpc, wr, werr, round, wi, nbuffered,
                 wire, flushed, tasks, tasksClosed, rpc, rerr, ndec,
                 completed, by>>

\* SharedBackendConn.Close dropping the last reference
CallClose ==
  /\ UNCHANGED nonBackendVars
  /\ ~stopped[BC]
  /\ BackendConnClose(BC)
  /\ UNCHANGED <<req, rslot, batch, broken, wait, input, wpc, wr, werr, round,
                 wi, nbuffered, wire, flushed, tasks, tasksClosed, rpc, rerr,
                 ndec, pushed, completed, by>>

\* the Broken flag of a batch is set elsewhere (a sub-request failed on
\* another backend)
BreakElsewhere(g) ==
  /\ UNCHANGED nonBackendVars
  /\ HasBroken(g) /\ ~broken[g]
  /\ broken' = [broken EXCEPT ![g] = TRUE]
  /\ UNCHANGED <<req, rslot, batch, wait, input, stopped, wpc, wr, werr, round,
                 wi, nbuffered, wire, flushed, tasks, tasksClosed, rpc, rerr,
                 ndec, pushed, completed, by>>

\* the frame of the two steps of BackendConn.KeepAlive
KeepAlive_frame ==
  /\ UNCHANGED <<svars, rvars, dvars, evars, fvars, wtvars, rdvars,
                 ovars>>
  /\ UNCHANGED <<req, rslot, broken, wait, stopped, wpc, wr, werr, round, wi,
                 nbuffered, wire, flushed, tasks, tasksClosed, rpc, rerr, ndec,
                 completed, by>>

\* KeepAlive going on to PushBack whatever len(bc.input) is
KeepAlive_check_always ==
  /\ kpc = "idle"
  /\ kpc' = "push"
  /\ UNCHANGED <<kret, input, batch, pushed>>
  /\ KeepAlive_frame

\* BackendConn.KeepAlive lines 62-64: if len(bc.input) != 0 { return false }
KeepAlive_check ==
  /\ kpc = "idle"
  /\ IF Len(input[BC]) # 0
     THEN kpc' = "done" /\ kret' = "false"
     ELSE kpc' = "push" /\ UNCHANGED kret
  /\ UNCHANGED <<input, batch, pushed>>
  /\ KeepAlive_frame

\* BackendConn.KeepAlive lines 66-70: bc.PushBack(NewRequest("PING", ...)),
\* return true
KeepAlive_push ==
  /\ kpc = "push"
  /\ PushBack(BC, KeepAliveReq)
  /\ pushed' = Append(pushed, KeepAliveReq)
  /\ kpc' = "done"
  /\ kret' = "true"
  /\ KeepAlive_frame

\* BackendConn.Close lines 50-54, called any number of times: stop.Do runs
\* close(bc.input) on the first call only
BackendConn_Close ==
  /\ nclose[BC] < MaxClose
  /\ nclose' = [nclose EXCEPT ![BC] = @ + 1]
  /\ BackendConnClose(BC)
  /\ UNCHANGED <<req, rslot, batch, broken, wait, input, wpc, wr, werr, round,
                 wi, nbuffered, wire, flushed, tasks, tasksClosed, rpc, rerr,
                 ndec, pushed, completed, by>>
  /\ UNCHANGED <<closed, ctl, ret, pool, nconn, caddr, refcnt, panicked,
                 slots, fpc, fslot, fkey, fclosed, dret>>
  /\ UNCHANGED <<svars, xvars>>

\* Router.KeepAlive holds Router.mu around BackendConn.KeepAlive, and so do
\* fillSlot and resetSlot around SharedBackendConn.Close: the connection is
\* not closed while a KeepAlive call is inside
CallClose_underMu ==
  /\ kpc # "push"
  /\ CallClose

(***************************************************************************)
(* Session: one client connection (section 4.6 of the specification)       *)
(***************************************************************************)
Cmds == 1..NumReq

InitS ==
  /\ sdecoded = <<>>
  /\ spc = "decode"
  /\ sneed = 0
  /\ spending = <<>>
  /\ sbatch = [c \in Cmds |-> 0]
  /\ sresp = [c \in Cmds |-> FALSE]
  /\ swcur = 0
  /\ swritten = <<>>

\* the command the session reader is dispatching
SessionCur == sdecoded[Len(sdecoded)]

\* reader loop: decode one command; a blacklisted one gets an immediate local
\* error response; the request is pushed onto pending before dispatch
Session_decode(c, keys, notAllowed) ==
  /\ UNCHANGED nonSessionVars
  /\ spc = "decode"
  /\ \A i \in 1..Len(sdecoded) : sdecoded[i] # c
  /\ Len(spending) < PendingCap
  /\ sdecoded' = Append(sdecoded, c)
  /\ spending' = Append(spending, c)
  /\ IF notAllowed
     THEN /\ sresp' = [sresp EXCEPT ![c] = TRUE]
          /\ UNCHANGED <<spc, sneed>>
     ELSE /\ spc' = "dispatch"
          /\ sneed' = keys
          /\ UNCHANGED sresp
  /\ UNCHANGED <<sbatch, swcur, swritten>>

\* reader loop: router.Dispatch of one (sub-)request of the current command;
\* each dispatch target adds one to the command's batch
Session_dispatch ==
  /\ UNCHANGED nonSessionVars
  /\ spc = "dispatch"
  /\ sbatch' = [sbatch EXCEPT ![SessionCur] = @ + 1]
  /\ sneed' = sneed - 1
  /\ spc' = IF sneed = 1 THEN "decode" ELSE "dispatch"
  /\ UNCHANGED <<sdecoded, spending, sresp, swcur, swritten>>

\* a backend completes one dispatched (sub-)request of command c: batch Done
Session_complete(c) ==
  /\ UNCHANGED nonSessionVars
  /\ sbatch[c] > 0
  /\ sbatch' = [sbatch EXCEPT ![c] = @ - 1]
  /\ UNCHANGED <<sdecoded, spc, sneed, spending, sresp, swcur, swritten>>

\* a writer that takes whichever pending request is already complete
Session_pop_completedFirst ==
  /\ UNCHANGED nonSessionVars
  /\ swcur = 0
  /\ \E i \in 1..Len(spending) :
       /\ sbatch[spending[i]] = 0
       /\ swcur' = spending[i]
       /\ spending' = SubSeq(spending, 1, i - 1)
                      \o SubSeq(spending, i + 1, Len(spending))
  /\ UNCHANGED <<sdecoded, spc, sneed, sbatch, sresp, swritten>>

\* writer loop: pop the next request from pending, first in, first out
Session_pop ==
  /\ UNCHANGED nonSessionVars
  /\ swcur = 0
  /\ spending # <<>>
  /\ swcur' = Head(spending)
  /\ spending' = Tail(spending)
  /\ UNCHANGED <<sdecoded, spc, sneed, sbatch, sresp, swritten>>

\* writer loop: wait on the request's batch counter, then write its reply
Session_write ==
  /\ UNCHANGED nonSessionVars
  /\ swcur # 0
  /\ sbatch[swcur] = 0
  /\ swritten' = Append(swritten, swcur)
  /\ swcur' = 0
  /\ UNCHANGED <<sdecoded, spc, sneed, spending, sbatch, sresp>>

(***************************************************************************)
(* router.go: Router, its pool of shared backend connections, its slots    *)
(***************************************************************************)
NoCtl == [op |-> "none", pc |-> "none", idx |-> 0, addr |-> NoAddr,
          from |-> NoAddr, locked |-> FALSE, held |-> FALSE, waited |-> FALSE]
NoRet == [op |-> "none", err |-> Nil, idx |-> 0, addr |-> NoAddr,
          from |-> NoAddr, locked |-> FALSE, held |-> FALSE]

\* Slot.reset, and the slot NewWithAuth starts with
EmptySlot == [addr |-> NoAddr, bc |-> NoConn, from |-> NoAddr, mbc |-> NoConn,
              hold |-> FALSE, pending |-> <<>>]

InitR ==
  /\ closed = FALSE
  /\ ctl = NoCtl
  /\ ret = NoRet
  /\ pool = [a \in Addrs |-> NoConn]
  /\ nconn = 0
  /\ caddr = [c \in Conns |-> NoAddr]
  /\ refcnt = [c \in Conns |-> 0]
  /\ nclose = [c \in Conns |-> 0]
  /\ panicked = FALSE
  /\ slots = [s \in Slots |-> EmptySlot]
  /\ fpc = [r \in Reqs |-> "idle"]
  /\ fslot = [r \in Reqs |-> 0]
  /\ fkey = [r \in Reqs |-> FALSE]
  /\ fclosed = [r \in Reqs |-> FALSE]
  /\ dret = [r \in Reqs |-> Nil]

\* the pool and the connections, as one value the steps of fillSlot thread
PoolState == [pool |-> pool, nconn |-> nconn, caddr |-> caddr,
              refcnt |-> refcnt, nclose |-> nclose, stopped |-> stopped,
              panicked |-> panicked]

\* SharedBackendConn.Close closing the wrapped BackendConn at any count
SharedBackendConnClose_atAnyCount(P, bc) ==
  IF P.refcnt[bc] <= 0
  THEN [P EXCEPT !.panicked = TRUE]
  ELSE [P EXCEPT !.stopped[bc] = TRUE,
                 !.nclose[bc] = IF P.stopped[bc] THEN @ ELSE @ + 1,
                 !.refcnt[bc] = @ - 1]

\* SharedBackendConn.Close: panics on refcnt <= 0, closes the wrapped
\* BackendConn when refcnt is 1, then decrements
SharedBackendConnClose(P, bc) ==
  IF P.refcnt[bc] <= 0
  THEN [P EXCEPT !.panicked = TRUE]
  ELSE LET P1 == IF P.refcnt[bc] = 1
                 THEN [P EXCEPT !.stopped[bc] = TRUE, !.nclose[bc] = @ + 1]
                 ELSE P
       IN [P1 EXCEPT !.refcnt[bc] = @ - 1]

\* SharedBackendConn.IncrRefcnt: panics on refcnt = 0
IncrRefcnt(P, bc) ==
  IF P.refcnt[bc] = 0
  THEN [P EXCEPT !.panicked = TRUE]
  ELSE [P EXCEPT !.refcnt[bc] = @ + 1]

\* getBackendConn handing out the pooled connection without IncrRefcnt
getBackendConn_noIncr(P, addr) ==
  IF P.pool[addr] # NoConn
  THEN [P |-> P, bc |-> P.pool[addr]]
  ELSE IF P.nconn >= MaxConns
  THEN [P |-> [P EXCEPT !.nconn = MaxConns + 1], bc |-> NoConn]
  ELSE LET id == P.nconn + 1
       IN [P |-> [P EXCEPT !.nconn = id, !.refcnt[id] = 1, !.caddr[id] = addr,
                           !.pool[addr] = id],
           bc |-> id]

\* Router.getBackendConn(addr): the pool state after it, and the connection
getBackendConn(P, addr) ==
  IF P.pool[addr] # NoConn
  THEN [P |-> IncrRefcnt(P, P.pool[addr]), bc |-> P.pool[addr]]
  ELSE IF P.nconn >= MaxConns
  THEN \* beyond the model's bound: FillSlot's guard excludes the call
       [P |-> [P EXCEPT !.nconn = MaxConns + 1], bc |-> NoConn]
  ELSE LET id == P.nconn + 1
       IN [P |-> [P EXCEPT !.nconn = id, !.refcnt[id] = 1, !.caddr[id] = addr,
                           !.pool[addr] = id],
           bc |-> id]

\* putBackendConn leaving the closed connection in the pool
putBackendConn_keepEntry(P, bc) ==
  IF bc = NoConn THEN P ELSE SharedBackendConnClose(P, bc)

\* Router.putBackendConn(bc)
putBackendConn(P, bc) ==
  IF bc = NoConn THEN P
  ELSE LET P1 == SharedBackendConnClose(P, bc)
       IN IF ~P1.panicked /\ P1.refcnt[bc] = 0
          THEN [P1 EXCEPT !.pool[P1.caddr[bc]] = NoConn]
          ELSE P1

\* the backend's connection released, the migration source's kept
releaseSlot_backendOnly(P, slot) == putBackendConn(P, slot.bc)

\* resetSlot / fillSlot lines 126-128 (137-139): release both connections
releaseSlot(P, slot) ==
  putBackendConn(putBackendConn(P, slot.bc), slot.mbc)

\* fillSlot lines 141-155: install the backend and the migration source
fillSlotInstall(P, slot, addr, from) ==
  LET G1 == IF addr # NoAddr THEN getBackendConn(P, addr)
            ELSE [P |-> P, bc |-> NoConn]
      G2 == IF from # NoAddr THEN getBackendConn(G1.P, from)
            ELSE [P |-> G1.P, bc |-> NoConn]
  IN [P |-> G2.P,
      slot |-> [slot EXCEPT !.addr = addr, !.bc = G1.bc,
                            !.from = from, !.mbc = G2.bc]]

\* Slot.reset: the backend and the migration source are cleared
slotReset(slot) ==
  [slot EXCEPT !.addr = NoAddr, !.bc = NoConn, !.from = NoAddr, !.mbc = NoConn]

\* Slot.unblock: queued requests go onto the (possibly new) backend, the
\* latch is released
slotUnblock(slot) == [slot EXCEPT !.hold = FALSE, !.pending = <<>>]

\* what Slot.unblock appends to the inputs, and adds to the batch counters
unblockInput(slot, inp) ==
  IF slot.bc # NoConn THEN [inp EXCEPT ![slot.bc] = @ \o slot.pending] ELSE inp

unblockBatch(slot, bat) ==
  IF slot.bc # NoConn
  THEN [g \in DOMAIN bat |->
          bat[g] + Cardinality({i \in 1..Len(slot.pending) :
                                  GroupOf(slot.pending[i]) = g})]
  ELSE bat

\* the pool state is written back
SetPoolState(P) ==
  /\ pool' = P.pool
  /\ nconn' = P.nconn
  /\ caddr' = P.caddr
  /\ refcnt' = P.refcnt
  /\ nclose' = P.nclose
  /\ stopped' = P.stopped
  /\ panicked' = P.panicked

\* fillSlot unblocking the slot whatever locked says
fillSlotResult_alwaysUnblock(idx, addr, from, locked) ==
  LET P1 == releaseSlot(PoolState, slots[idx])
      F == fillSlotInstall(P1, slotReset(slots[idx]), addr, from)
  IN [P |-> F.P,
      slot |-> slotUnblock(F.slot),
      input |-> unblockInput(F.slot, input),
      batch |-> unblockBatch(F.slot, batch)]

\* what fillSlot makes of slot idx once blockAndWait has returned
fillSlotResult(idx, addr, from, locked) ==
  LET P1 == releaseSlot(PoolState, slots[idx])
      F == fillSlotInstall(P1, slotReset(slots[idx]), addr, from)
  IN [P |-> F.P,
      slot |-> IF locked THEN F.slot ELSE slotUnblock(F.slot),
      input |-> IF locked THEN input ELSE unblockInput(F.slot, input),
      batch |-> IF locked THEN batch ELSE unblockBatch(F.slot, batch)]

\* the variables of the backends and sessions that no control call touches
ctlUntouched == <<req, rslot, broken, wait, wpc, wr, werr, round, wi,
                  nbuffered, wire, flushed, tasks, tasksClosed, rpc, rerr,
                  ndec, pushed, completed, by, fpc, fslot, fkey, fclosed,
                  dret, svars, xvars>>

MuFree == ctl.op = "none"

\* Slot.blockAndWait, first half: set lock.hold
blockAndWait_begin(idx) == slots' = [slots EXCEPT ![idx].hold = TRUE]

\* FillSlot returns err without having entered fillSlot
FillSlot_return(err, idx) ==
  /\ ret' = [NoRet EXCEPT !.op = "FillSlot", !.err = err, !.idx = idx]
  /\ UNCHANGED <<ctl, slots>>

\* fillSlot lines 134-135: the call of blockAndWait on the slot
fillSlot_enter(idx, addr, from, locked) ==
  /\ fillSlotResult(idx, addr, from, locked).P.nconn <= MaxConns
  /\ blockAndWait_begin(idx)
  /\ ctl' = [op |-> "FillSlot", pc |-> "wait", idx |-> idx,
             addr |-> addr, from |-> from, locked |-> locked,
             held |-> slots[idx].hold, waited |-> wait[idx] > 0]
  /\ ret' = NoRet

\* what FillSlot leaves alone until fillSlot runs
FillSlot_frame ==
  /\ UNCHANGED <<closed, pool, nconn, caddr, refcnt, nclose, panicked,
                 stopped, input, batch>>
  /\ UNCHANGED ctlUntouched

\* FillSlot whose fillSlot goes on without blockAndWait
FillSlot_noBlock(idx, addr, from, locked) ==
  /\ MuFree
  /\ IF closed
     THEN FillSlot_return(ErrClosedRouter, idx)
     ELSE IF idx >= 0 /\ idx < MaxSlotNum
     THEN /\ fillSlotResult(idx, addr, from, locked).P.nconn <= MaxConns
          /\ ctl' = [op |-> "FillSlot", pc |-> "run", idx |-> idx,
                     addr |-> addr, from |-> from, locked |-> locked,
                     held |-> slots[idx].hold, waited |-> wait[idx] > 0]
          /\ ret' = NoRet
          /\ UNCHANGED slots
     ELSE FillSlot_return(ErrInvalidSlotId, idx)
  /\ FillSlot_frame

\* FillSlot that validates the index before it looks at closed
FillSlot_idxFirst(idx, addr, from, locked) ==
  /\ MuFree
  /\ IF ~(idx >= 0 /\ idx < MaxSlotNum)
     THEN FillSlot_return(ErrInvalidSlotId, idx)
     ELSE IF closed
     THEN FillSlot_return(ErrClosedRouter, idx)
     ELSE fillSlot_enter(idx, addr, from, locked)
  /\ FillSlot_frame

\* Router.FillSlot lines 75-86: lock, check closed, check idx, call fillSlot
FillSlot(idx, addr, from, locked) ==
  /\ MuFree
  /\ IF closed
     THEN FillSlot_return(ErrClosedRouter, idx)
     ELSE IF idx >= 0 /\ idx < MaxSlotNum
     THEN fillSlot_enter(idx, addr, from, locked)
     ELSE FillSlot_return(ErrInvalidSlotId, idx)
  /\ FillSlot_frame

\* Slot.blockAndWait, second half: wait until the wait counter is zero
blockAndWait_return ==
  /\ ctl.pc = "wait"
  /\ wait[ctl.idx] = 0
  /\ ctl' = [ctl EXCEPT !.pc = "run"]
  /\ ret' = NoRet
  /\ UNCHANGED <<closed, pool, nconn, caddr, refcnt, nclose, panicked, slots,
                 stopped, input, batch>>
  /\ UNCHANGED ctlUntouched

\* fillSlot lines 137-168: release, reset, install, unblock unless locked
fillSlot ==
  /\ ctl.op = "FillSlot" /\ ctl.pc = "run"
  /\ LET F == fillSlotResult(ctl.idx, ctl.addr, ctl.from, ctl.locked)
     IN /\ SetPoolState(F.P)
        /\ slots' = [slots EXCEPT ![ctl.idx] = F.slot]
        /\ input' = F.input
        /\ batch' = F.batch
  /\ ret' = [op |-> "FillSlot", err |-> Nil, idx |-> ctl.idx,
             addr |-> ctl.addr, from |-> ctl.from, locked |-> ctl.locked,
             held |-> ctl.held]
  /\ ctl' = NoCtl
  /\ UNCHANGED closed
  /\ UNCHANGED ctlUntouched

\* Router.Close lines 41-47: lock, return nil if closed, else resetSlot(0)
\* calls blockAndWait
Close ==
  /\ MuFree
  /\ IF closed
     THEN /\ ret' = [NoRet EXCEPT !.op = "Close"]
          /\ UNCHANGED <<ctl, slots>>
     ELSE /\ blockAndWait_begin(0)
          /\ ctl' = [NoCtl EXCEPT !.op = "Close", !.pc = "wait", !.idx = 0,
                       !.held = slots[0].hold, !.waited = wait[0] > 0]
          /\ ret' = NoRet
  /\ UNCHANGED <<closed, pool, nconn, caddr, refcnt, nclose, panicked,
                 stopped, input, batch>>
  /\ UNCHANGED ctlUntouched

\* resetSlot lines 126-130 for slot ctl.idx, then the next slot's
\* blockAndWait, or Close lines 50-51 after the last slot
resetSlot ==
  /\ ctl.op = "Close" /\ ctl.pc = "run"
  /\ LET i == ctl.idx
         P1 == releaseSlot(PoolState, slots[i])
         S1 == slotReset(slots[i])
         done == [slots EXCEPT ![i] = slotUnblock(S1)]
     IN /\ SetPoolState(P1)
        /\ input' = unblockInput(S1, input)
        /\ batch' = unblockBatch(S1, batch)
        /\ IF i + 1 < MaxSlotNum
           THEN /\ slots' = [done EXCEPT ![i + 1].hold = TRUE]
                /\ ctl' = [ctl EXCEPT !.pc = "wait", !.idx = i + 1,
                                      !.held = slots[i + 1].hold,
                                      !.waited = wait[i + 1] > 0]
                /\ ret' = NoRet
                /\ UNCHANGED closed
           ELSE /\ slots' = done
                /\ closed' = TRUE
                /\ ctl' = NoCtl
                /\ ret' = [NoRet EXCEPT !.op = "Close"]
  /\ UNCHANGED ctlUntouched

\* BackendConn.KeepAlive on connection c, as the next value of the inputs
KeepAlive(inp, c) ==
  IF Len(inp[c]) # 0 THEN inp ELSE [inp EXCEPT ![c] = Append(@, PingReq)]

\* KeepAlive without the check of closed
RouterKeepAlive_noClosedCheck ==
  /\ MuFree
  /\ ret' = [NoRet EXCEPT !.op = "KeepAlive"]
  /\ input' = [c \in Conns |->
                 IF \E a \in Addrs : pool[a] = c
                 THEN KeepAlive(input, c)[c] ELSE input[c]]
  /\ UNCHANGED <<closed, ctl, pool, nconn, caddr, refcnt, nclose, panicked,
                 slots, stopped, batch>>
  /\ UNCHANGED ctlUntouched

\* Router.KeepAlive lines 88-98
RouterKeepAlive ==
  /\ MuFree
  /\ IF closed
     THEN /\ ret' = [NoRet EXCEPT !.op = "KeepAlive", !.err = ErrClosedRouter]
          /\ UNCHANGED input
     ELSE /\ ret' = [NoRet EXCEPT !.op = "KeepAlive"]
          /\ input' = [c \in Conns |->
                         IF \E a \in Addrs : pool[a] = c
                         THEN KeepAlive(input, c)[c] ELSE input[c]]
  /\ UNCHANGED <<closed, ctl, pool, nconn, caddr, refcnt, nclose, panicked,
                 slots, stopped, batch>>
  /\ UNCHANGED ctlUntouched

\* Router.GetSlots lines 54-68
GetSlots ==
  [s \in Slots |-> [id |-> s, backend_addr |-> slots[s].addr,
                    migrate_from |-> slots[s].from, locked |-> slots[s].hold]]

(***************************************************************************)
(* The data path: Router.Dispatch and slot.forward (section 4.4 of the     *)
(* specification; the slot's source is not at hand)                        *)
(***************************************************************************)
\* hashSlot of a null key: CRC32 of no bytes is 0
NullKeySlot == 0

\* what Dispatch and the backends leave alone
fwdUntouched == <<closed, ctl, pool, nconn, caddr, refcnt, nclose, stopped,
                  wpc, wr, werr, round, wi, nbuffered, wire, flushed, tasks,
                  tasksClosed, rpc, rerr, ndec, pushed, svars, xvars>>

\* a send on the input of a closed BackendConn panics
pushPanics(c) == panicked' = (panicked \/ stopped[c])

\* Dispatch taking a reference of its own on the backend it forwards to
Dispatch_takeRef(r, s, key) ==
  /\ fpc[r] = "idle"
  /\ key \/ s = NullKeySlot
  /\ ~slots[s].hold
  /\ fslot' = [fslot EXCEPT ![r] = s]
  /\ fkey' = [fkey EXCEPT ![r] = key]
  /\ fclosed' = [fclosed EXCEPT ![r] = closed]
  /\ IF slots[s].bc = NoConn
     THEN /\ fpc' = [fpc EXCEPT ![r] = "done"]
          /\ dret' = [dret EXCEPT ![r] = ErrSlotIsNotReady]
          /\ UNCHANGED <<wait, rslot, refcnt>>
     ELSE /\ fpc' = [fpc EXCEPT ![r] = "forward"]
          /\ wait' = [wait EXCEPT ![s] = @ + 1]
          /\ rslot' = [rslot EXCEPT ![r] = s]
          /\ refcnt' = [refcnt EXCEPT ![slots[s].bc] = @ + 1]
          /\ UNCHANGED dret
  /\ ret' = NoRet
  /\ UNCHANGED <<req, batch, broken, input, completed, by, slots, panicked>>
  /\ UNCHANGED <<closed, ctl, pool, nconn, caddr, nclose, stopped, wpc, wr,
                 werr, round, wi, nbuffered, wire, flushed, tasks,
                 tasksClosed, rpc, rerr, ndec, pushed, svars, xvars>>

\* Dispatch whose forward does not wait for a blocked slot's release
Dispatch_noLatch(r, s, key) ==
  /\ fpc[r] = "idle"
  /\ key \/ s = NullKeySlot
  /\ fslot' = [fslot EXCEPT ![r] = s]
  /\ fkey' = [fkey EXCEPT ![r] = key]
  /\ fclosed' = [fclosed EXCEPT ![r] = closed]
  /\ IF slots[s].bc = NoConn
     THEN /\ fpc' = [fpc EXCEPT ![r] = "done"]
          /\ dret' = [dret EXCEPT ![r] = ErrSlotIsNotReady]
          /\ UNCHANGED <<wait, rslot>>
     ELSE /\ fpc' = [fpc EXCEPT ![r] = "forward"]
          /\ wait' = [wait EXCEPT ![s] = @ + 1]
          /\ rslot' = [rslot EXCEPT ![r] = s]
          /\ UNCHANGED dret
  /\ ret' = NoRet
  /\ UNCHANGED <<req, batch, broken, input, completed, by, slots, panicked>>
  /\ UNCHANGED fwdUntouched

\* Router.Dispatch lines 100-104 and slot.forward steps 1-2: hash to slot s,
\* wait while the slot is blocked, then count the request in.  A slot with no
\* backend forwards nothing and returns an error.
Dispatch(r, s, key) ==
  /\ fpc[r] = "idle"
  /\ key \/ s = NullKeySlot
  /\ ~slots[s].hold
  /\ fslot' = [fslot EXCEPT ![r] = s]
  /\ fkey' = [fkey EXCEPT ![r] = key]
  /\ fclosed' = [fclosed EXCEPT ![r] = closed]
  /\ IF slots[s].bc = NoConn
     THEN /\ fpc' = [fpc EXCEPT ![r] = "done"]
          /\ dret' = [dret EXCEPT ![r] = ErrSlotIsNotReady]
          /\ UNCHANGED <<wait, rslot>>
     ELSE /\ fpc' = [fpc EXCEPT ![r] = "forward"]
          /\ wait' = [wait EXCEPT ![s] = @ + 1]
          /\ rslot' = [rslot EXCEPT ![r] = s]
          /\ UNCHANGED dret
  /\ ret' = NoRet
  /\ UNCHANGED <<req, batch, broken, input, completed, by, slots, panicked>>
  /\ UNCHANGED fwdUntouched

\* step 3 applies: the slot has a migration source and the key is non-null
MustMigrate(r) == slots[fslot[r]].mbc # NoConn /\ fkey[r]

\* slot.forward step 3, first half: SLOTSMGRTTAGONE for the key is pushed
\* onto the migration source
forward_migrate(r) ==
  /\ fpc[r] = "forward"
  /\ MustMigrate(r)
  /\ PushBack(slots[fslot[r]].mbc, MigOf(r))
  /\ pushPanics(slots[fslot[r]].mbc)
  /\ fpc' = [fpc EXCEPT ![r] = "migrating"]
  /\ ret' = NoRet
  /\ UNCHANGED <<req, rslot, broken, wait, completed, by, slots, fslot, fkey,
                 fclosed, dret>>
  /\ UNCHANGED fwdUntouched

\* forward going on to the backend whatever the migration request returned
forward_migrated_ignoreErr(r) ==
  /\ fpc[r] = "migrating"
  /\ req[MigOf(r)].n > 0
  /\ fpc' = [fpc EXCEPT ![r] = "push"]
  /\ ret' = NoRet
  /\ UNCHANGED <<req, dret, rslot, batch, broken, wait, input, completed, by,
                 slots, panicked, fslot, fkey, fclosed>>
  /\ UNCHANGED fwdUntouched

\* slot.forward step 3, second half: the migration request has completed; on
\* an error the original request gets that error and forward returns
forward_migrated(r) ==
  /\ fpc[r] = "migrating"
  /\ req[MigOf(r)].n > 0
  /\ IF req[MigOf(r)].err # Nil
     THEN /\ req' = [req EXCEPT ![r].err = req[MigOf(r)].err]
          /\ dret' = [dret EXCEPT ![r] = req[MigOf(r)].err]
          /\ fpc' = [fpc EXCEPT ![r] = "done"]
     ELSE /\ fpc' = [fpc EXCEPT ![r] = "push"]
          /\ UNCHANGED <<req, dret>>
  /\ ret' = NoRet
  /\ UNCHANGED <<rslot, batch, broken, wait, input, completed, by, slots,
                 panicked, fslot, fkey, fclosed>>
  /\ UNCHANGED fwdUntouched

\* slot.forward steps 4-5: a request that finds the slot locked is queued on
\* the slot's pending list, any other is pushed onto the backend's input
forward_push(r) ==
  /\ \/ fpc[r] = "push"
     \/ fpc[r] = "forward" /\ ~MustMigrate(r)
  /\ IF slots[fslot[r]].hold
     THEN /\ slots' = [slots EXCEPT ![fslot[r]].pending = Append(@, r)]
          /\ UNCHANGED <<input, batch, panicked>>
     ELSE /\ PushBack(slots[fslot[r]].bc, r)
          /\ pushPanics(slots[fslot[r]].bc)
          /\ UNCHANGED slots
  /\ fpc' = [fpc EXCEPT ![r] = "done"]
  /\ dret' = [dret EXCEPT ![r] = Nil]
  /\ ret' = NoRet
  /\ UNCHANGED <<req, rslot, broken, wait, completed, by, fslot, fkey, fclosed>>
  /\ UNCHANGED fwdUntouched

\* a BackendConn of the pool serves the request at the head of its input:
\* Run, loopWriter and loopReader taken together complete it with the
\* server's reply or with an error
Backend_serve(c, ok) ==
  /\ c <= nconn
  /\ input[c] # <<>>
  /\ input' = [input EXCEPT ![c] = Tail(@)]
  /\ IF Head(input[c]) = PingReq
     THEN UNCHANGED <<req, broken, wait, batch, completed, by>>
     ELSE setResponse(Head(input[c]), IF ok THEN Head(input[c]) ELSE 0,
                      IF ok THEN Nil ELSE ReadErr, Writer)
  /\ ret' = NoRet
  /\ UNCHANGED <<rslot, slots, panicked, fpc, fslot, fkey, fclosed, dret>>
  /\ UNCHANGED fwdUntouched

InitB ==
  /\ req = [r \in AllReqs |-> [resp |-> 0, err |-> Nil, n |-> 0]]
  /\ rslot = [r \in AllReqs |-> NoSlot]
  /\ batch = [g \in Groups |-> 0]
  /\ broken = [g \in Groups |-> FALSE]
  /\ wait = [s \in Slots |-> 0]
  /\ input = [c \in Conns |-> <<>>]
  /\ stopped = [c \in Conns |-> FALSE]
  /\ wpc = "recv0"
  /\ wr = 0
  /\ werr = Nil
  /\ round = 0
  /\ wi = 0
  /\ nbuffered = 0
  /\ wire = [k \in Rounds |-> <<>>]
  /\ flushed = [k \in Rounds |-> 0]
  /\ tasks = [k \in Rounds |-> <<>>]
  /\ tasksClosed = [k \in Rounds |-> FALSE]
  /\ rpc = [k \in Rounds |-> "none"]
  /\ rerr = [k \in Rounds |-> Nil]
  /\ ndec = [k \in Rounds |-> 0]
  /\ pushed = <<>>
  /\ completed = <<>>
  /\ by = [r \in AllReqs |-> Nobody]

(***************************************************************************)
(* pkg/proxy/redis: the RESP decoder (decoder.go) over the buffered Reader *)
(* (bufio.go).  A byte is a one-character string and the input is the      *)
(* sequence of bytes the underlying io.Reader delivers before it reports   *)
(* an error; a position is the number of bytes consumed so far.            *)
(***************************************************************************)
CR == "\r"
LF == "\n"
SP == " "

\* RespType (resp.go): the first byte of a frame
TypeString == "+"
TypeError == "-"
TypeInt == ":"
TypeBulkBytes == "$"
TypeArray == "*"

\* the error of the underlying reader at the end of the input (io.EOF, a
\* timeout, a reset), and io.ReadFull's error for a partial read
ErrEOF == "EOF"
ErrUnexpectedEOF == "ErrUnexpectedEOF"
ErrSyntax == "strconv.ErrSyntax"
ErrBadRespType == "bad resp type"
ErrBadRespCRLFEnd == "ErrBadRespCRLFEnd"
ErrBadRespBytesLen == "ErrBadRespBytesLen"
ErrBadRespArrayLen == "ErrBadRespArrayLen"
ErrBadRespBytesLenTooLong == "ErrBadRespBytesLenTooLong"
ErrBadRespArrayLenTooLong == "ErrBadRespArrayLenTooLong"
ErrBadMultiBulkLen == "ErrBadMultiBulkLen"
ErrBadMultiBulkContent == "ErrBadMultiBulkContent"
ErrFailedDecoder == "ErrFailedDecoder"

\* decodeBulkBytes: n > 1024*1024*512, and decodeArray: n > 1024*1024
MaxBulkBytesLen == 1024 * 1024 * 512
MaxArrayLen == 1024 * 1024

\* a Resp: Type, Value and Array; null says that Value (of a bulk) or Array
\* (of an array) is nil
NewResp(t, value, array, null) ==
  [type |-> t, value |-> value, array |-> array, null |-> null]
NewBulkBytes(b) == NewResp(TypeBulkBytes, b, <<>>, FALSE)
NoResp == NewResp("", <<>>, <<>>, TRUE)

Digits == <<"0", "1", "2", "3", "4", "5", "6", "7", "8", "9">>
IsDigit(b) == \E i \in 1..10 : Digits[i] = b
DigitVal(b) == (CHOOSE i \in 1..10 : Digits[i] = b) - 1

RECURSIVE DecVal(_)
DecVal(d) ==
  IF d = <<>> THEN 0
  ELSE DecVal(SubSeq(d, 1, Len(d) - 1)) * 10 + DigitVal(d[Len(d)])

\* btoi: an optional sign and at least one digit, nothing else (the fast
\* path and strconv.ParseInt accept the same short inputs)
btoi(b) ==
  LET i == IF b # <<>> /\ b[1] \in {"-", "+"} THEN 1 ELSE 0
      d == SubSeq(b, i + 1, Len(b))
  IN  IF d # <<>> /\ \A j \in 1..Len(d) : IsDigit(d[j])
      THEN [err |-> Nil,
            n |-> IF b[1] = "-" THEN 0 - DecVal(d) ELSE DecVal(d)]
      ELSE [err |-> ErrSyntax, n |-> 0]

\* Reader.ReadByte at position p of input s
ReadByte(s, p) ==
  IF p < Len(s)
  THEN [err |-> Nil, b |-> s[p + 1], pos |-> p + 1]
  ELSE [err |-> ErrEOF, b |-> "", pos |-> p]

\* Reader.ReadBytes(delim): the bytes up to and including the first delim;
\* without one, everything is read and the reader's error is returned
ReadBytes(s, p, delim) ==
  IF \E i \in (p + 1)..Len(s) : s[i] = delim
  THEN LET i == CHOOSE i \in (p + 1)..Len(s) :
                  /\ s[i] = delim
                  /\ \A j \in (p + 1)..(i - 1) : s[j] # delim
       IN  [err |-> Nil, b |-> SubSeq(s, p + 1, i), pos |-> i]
  ELSE [err |-> ErrEOF, b |-> <<>>, pos |-> Len(s)]

\* io.ReadFull(d.br, b) with len(b) = n
ReadFull(s, p, n) ==
  IF n = 0 THEN [err |-> Nil, b |-> <<>>, pos |-> p]
  ELSE IF p + n <= Len(s)
  THEN [err |-> Nil, b |-> SubSeq(s, p + 1, p + n), pos |-> p + n]
  ELSE [err |-> IF p = Len(s) THEN ErrEOF ELSE ErrUnexpectedEOF,
        b |-> <<>>, pos |-> Len(s)]

\* the element of a singleton set: in Only({ e(x) : x \in {v} }) the value v
\* is computed once and is called x in e
Only(S) == CHOOSE x \in S : TRUE

\* Decoder.decodeTextBytes taking a line that ends in LF alone as well
decodeTextBytes_lfAccepted(s, p) ==
  Only({ (LET n == Len(l.b) - 2
          IN  IF l.err # Nil THEN [err |-> l.err, value |-> <<>>, pos |-> l.pos]
              ELSE IF n < 0 \/ l.b[n + 1] # CR
              THEN [err |-> Nil, value |-> SubSeq(l.b, 1, n + 1),
                    pos |-> l.pos]
              ELSE [err |-> Nil, value |-> SubSeq(l.b, 1, n), pos |-> l.pos])
         : l \in {ReadBytes(s, p, LF)} })

\* Decoder.decodeTextBytes, and decodeTextBytesUnsafe which differs only in
\* the buffer the line is returned in
decodeTextBytes(s, p) ==
  Only({ (LET n == Len(l.b) - 2
          IN  IF l.err # Nil THEN [err |-> l.err, value |-> <<>>, pos |-> l.pos]
              ELSE IF n < 0 \/ l.b[n + 1] # CR
              THEN [err |-> ErrBadRespCRLFEnd, value |-> <<>>, pos |-> l.pos]
              ELSE [err |-> Nil, value |-> SubSeq(l.b, 1, n), pos |-> l.pos])
         : l \in {ReadBytes(s, p, LF)} })

\* Decoder.decodeInt
decodeInt(s, p) ==
  Only({ (IF t.err # Nil THEN [err |-> t.err, n |-> 0, pos |-> t.pos]
          ELSE LET v == btoi(t.value)
               IN  [err |-> v.err, n |-> v.n, pos |-> t.pos])
         : t \in {decodeTextBytes(s, p)} })

\* Decoder.decodeBulkBytes refusing a length equal to the maximum
decodeBulkBytes_maxRefused(s, p) ==
  LET fail(e, q) == [err |-> e, value |-> <<>>, null |-> TRUE, pos |-> q]
  IN  Only({ (IF i.err # Nil THEN fail(i.err, i.pos)
              ELSE IF i.n < -1 THEN fail(ErrBadRespBytesLen, i.pos)
              ELSE IF i.n >= MaxBulkBytesLen
              THEN fail(ErrBadRespBytesLenTooLong, i.pos)
              ELSE IF i.n = -1 THEN fail(Nil, i.pos)
              ELSE LET f == ReadFull(s, i.pos, i.n + 2)
                   IN  IF f.err # Nil THEN fail(f.err, f.pos)
                       ELSE IF f.b[i.n + 1] # CR \/ f.b[i.n + 2] # LF
                       THEN fail(ErrBadRespCRLFEnd, f.pos)
                       ELSE [err |-> Nil, value |-> SubSeq(f.b, 1, i.n),
                             null |-> FALSE, pos |-> f.pos])
             : i \in {decodeInt(s, p)} })

\* Decoder.decodeBulkBytes
decodeBulkBytes(s, p) ==
  LET fail(e, q) == [err |-> e, value |-> <<>>, null |-> TRUE, pos |-> q]
  IN  Only({ (IF i.err # Nil THEN fail(i.err, i.pos)
              ELSE IF i.n < -1 THEN fail(ErrBadRespBytesLen, i.pos)
              ELSE IF i.n > MaxBulkBytesLen
              THEN fail(ErrBadRespBytesLenTooLong, i.pos)
              ELSE IF i.n = -1 THEN fail(Nil, i.pos)
              ELSE LET f == ReadFull(s, i.pos, i.n + 2)
                   IN  IF f.err # Nil THEN fail(f.err, f.pos)
                       ELSE IF f.b[i.n + 1] # CR \/ f.b[i.n + 2] # LF
                       THEN fail(ErrBadRespCRLFEnd, f.pos)
                       ELSE [err |-> Nil, value |-> SubSeq(f.b, 1, i.n),
                             null |-> FALSE, pos |-> f.pos])
             : i \in {decodeInt(s, p)} })

RECURSIVE decodeResp(_, _)
RECURSIVE decodeElems(_, _, _, _)

\* the loop of decodeArray (bulkOnly = FALSE) and of decodeMultiBulk
\* (bulkOnly = TRUE): n more elements from position p
decodeElems(s, p, n, bulkOnly) ==
  IF n = 0 THEN [err |-> Nil, array |-> <<>>, pos |-> p]
  ELSE Only({ (IF r.err # Nil
               THEN [err |-> r.err, array |-> <<>>, pos |-> r.pos]
               ELSE IF bulkOnly /\ r.resp.type # TypeBulkBytes
               THEN [err |-> ErrBadMultiBulkContent, array |-> <<>>,
                     pos |-> r.pos]
               ELSE Only({ (IF rest.err # Nil THEN rest
                            ELSE [err |-> Nil,
                                  array |-> <<r.resp>> \o rest.array,
                                  pos |-> rest.pos])
                           : rest \in {decodeElems(s, r.pos, n - 1,
                                                   bulkOnly)} }))
              : r \in {decodeResp(s, p)} })

\* Decoder.decodeArray
decodeArray(s, p) ==
  LET fail(e, q) == [err |-> e, array |-> <<>>, null |-> TRUE, pos |-> q]
  IN  Only({ (IF i.err # Nil THEN fail(i.err, i.pos)
              ELSE IF i.n < -1 THEN fail(ErrBadRespArrayLen, i.pos)
              ELSE IF i.n > MaxArrayLen
              THEN fail(ErrBadRespArrayLenTooLong, i.pos)
              ELSE IF i.n = -1 THEN fail(Nil, i.pos)
              ELSE Only({ [err |-> a.err, array |-> a.array,
                           null |-> a.err # Nil, pos |-> a.pos]
                          : a \in {decodeElems(s, i.pos, i.n, FALSE)} }))
             : i \in {decodeInt(s, p)} })

\* Decoder.decodeResp
decodeResp(s, p) ==
  LET b == ReadByte(s, p) IN
  IF b.err # Nil THEN [err |-> b.err, resp |-> NoResp, pos |-> b.pos]
  ELSE IF b.b \in {TypeString, TypeError, TypeInt}
  THEN Only({ [err |-> t.err,
               resp |-> NewResp(b.b, t.value, <<>>, t.err # Nil),
               pos |-> t.pos]
              : t \in {decodeTextBytes(s, b.pos)} })
  ELSE IF b.b = TypeBulkBytes
  THEN Only({ [err |-> v.err, resp |-> NewResp(b.b, v.value, <<>>, v.null),
               pos |-> v.pos]
              : v \in {decodeBulkBytes(s, b.pos)} })
  ELSE IF b.b = TypeArray
  THEN Only({ [err |-> a.err, resp |-> NewResp(b.b, <<>>, a.array, a.null),
               pos |-> a.pos]
              : a \in {decodeArray(s, b.pos)} })
  ELSE [err |-> ErrBadRespType, resp |-> NoResp, pos |-> b.pos]

\* the loop of decodeSingleLineMultiBulk: the non-empty tokens of line b
\* between spaces, cur being the token read so far
RECURSIVE SplitTokens(_, _)
SplitTokens(b, cur) ==
  IF b = <<>> THEN (IF cur = <<>> THEN <<>> ELSE <<NewBulkBytes(cur)>>)
  ELSE IF Head(b) = SP
  THEN (IF cur = <<>> THEN <<>> ELSE <<NewBulkBytes(cur)>>)
       \o SplitTokens(Tail(b), <<>>)
  ELSE SplitTokens(Tail(b), Append(cur, Head(b)))

\* Decoder.decodeSingleLineMultiBulk
decodeSingleLineMultiBulk(s, p) ==
  Only({ (IF t.err # Nil THEN [err |-> t.err, array |-> <<>>, pos |-> t.pos]
          ELSE LET multi == SplitTokens(t.value, <<>>)
               IN  IF Len(multi) = 0
                   THEN [err |-> ErrBadMultiBulkLen, array |-> <<>>,
                         pos |-> t.pos]
                   ELSE [err |-> Nil, array |-> multi, pos |-> t.pos])
         : t \in {decodeTextBytes(s, p)} })

\* Decoder.decodeMultiBulk letting a frame of no element through
decodeMultiBulk_zeroAllowed(s, p) ==
  LET b == ReadByte(s, p)
      fail(e, q) == [err |-> e, array |-> <<>>, pos |-> q]
  IN  IF b.err # Nil THEN fail(b.err, b.pos)
      ELSE IF b.b # TypeArray THEN decodeSingleLineMultiBulk(s, p)
      ELSE Only({ (IF i.err # Nil THEN fail(i.err, i.pos)
                   ELSE IF i.n < 0 THEN fail(ErrBadRespArrayLen, i.pos)
                   ELSE IF i.n > MaxArrayLen
                   THEN fail(ErrBadRespArrayLenTooLong, i.pos)
                   ELSE decodeElems(s, i.pos, i.n, TRUE))
                  : i \in {decodeInt(s, b.pos)} })

\* Decoder.decodeMultiBulk; UnreadByte puts the byte just read back
decodeMultiBulk(s, p) ==
  LET b == ReadByte(s, p)
      fail(e, q) == [err |-> e, array |-> <<>>, pos |-> q]
  IN  IF b.err # Nil THEN fail(b.err, b.pos)
      ELSE IF b.b # TypeArray THEN decodeSingleLineMultiBulk(s, p)
      ELSE Only({ (IF i.err # Nil THEN fail(i.err, i.pos)
                   ELSE IF i.n <= 0 THEN fail(ErrBadRespArrayLen, i.pos)
                   ELSE IF i.n > MaxArrayLen
                   THEN fail(ErrBadRespArrayLenTooLong, i.pos)
                   ELSE decodeElems(s, i.pos, i.n, TRUE))
                  : i \in {decodeInt(s, b.pos)} })

\* the frame of a Decoder call
Decoder_frame ==
  /\ UNCHANGED <<bvars, svars, rvars, kvars, evars, fvars, wtvars, rdvars,
                 ovars>>
  /\ UNCHANGED dstream

\* what a call records: it counts, its result is kept, and dfailed remembers
\* that some call has returned an error
Decoder_return(op, err, val) ==
  /\ dncall' = dncall + 1
  /\ dlast' = [op |-> op, err |-> err, val |-> val]
  /\ dfailed' = (dfailed \/ err # Nil)

\* Decode going on without looking at d.Err
Decode_noLatch ==
  /\ dncall < MaxCalls
  /\ \E r \in {decodeResp(dstream, dpos)} :
       /\ dpos' = r.pos
       /\ dErr' = IF r.err # Nil THEN r.err ELSE dErr
       /\ Decoder_return("Decode", r.err, r.resp)
  /\ Decoder_frame

\* Decoder.Decode lines 74-83
Decode ==
  /\ dncall < MaxCalls
  /\ IF dErr # Nil
     THEN /\ Decoder_return("Decode", ErrFailedDecoder, NoResp)
          /\ UNCHANGED <<dpos, dErr>>
     ELSE \E r \in {decodeResp(dstream, dpos)} :
            /\ dpos' = r.pos
            /\ dErr' = IF r.err # Nil THEN r.err ELSE dErr
            /\ Decoder_return("Decode", r.err, r.resp)
  /\ Decoder_frame

\* Decoder.DecodeMultiBulk lines 85-94
DecodeMultiBulk ==
  /\ dncall < MaxCalls
  /\ IF dErr # Nil
     THEN /\ Decoder_return("DecodeMultiBulk", ErrFailedDecoder, <<>>)
          /\ UNCHANGED <<dpos, dErr>>
     ELSE \E r \in {decodeMultiBulk(dstream, dpos)} :
            /\ dpos' = r.pos
            /\ dErr' = IF r.err # Nil THEN r.err ELSE dErr
            /\ Decoder_return("DecodeMultiBulk", r.err, r.array)
  /\ Decoder_frame

\* a Decoder that is not in use
InitD ==
  /\ dstream = <<>>
  /\ dpos = 0
  /\ dErr = Nil
  /\ dncall = 0
  /\ dlast = [op |-> "none", err |-> Nil, val |-> <<>>]
  /\ dfailed = FALSE

\* pieces of input: well-formed frames, an inline command, and malformed or
\* truncated ones
Chunks ==
  { <<"+", "a", CR, LF>>,
    <<":", "1", "0", CR, LF>>,
    <<"$", "1", CR, LF, "a", CR, LF>>,
    <<"$", "-", "1", CR, LF>>,
    <<"$", "0", CR, LF, CR, LF>>,
    <<"*", "1", CR, LF, "$", "1", CR, LF, "b", CR, LF>>,
    <<"*", "1", CR, LF, "+", "a", CR, LF>>,
    <<"*", "0", CR, LF>>,
    <<"a", SP, SP, "b", CR, LF>>,
    <<"+", "a", LF>>,
    <<"$", "2", CR, LF, "a", CR, LF>>,
    <<"$", "-", "2", CR, LF>>,
    <<"*", "x", CR, LF>>,
    <<"?", CR, LF>>,
    <<SP, CR, LF>>,
    <<"$", "1">> }

RECURSIVE StreamsOf(_)
StreamsOf(n) ==
  IF n = 0 THEN {<<>>}
  ELSE StreamsOf(n - 1)
       \cup {s \o c : s \in StreamsOf(n - 1), c \in Chunks}

(***************************************************************************)
(* pkg/proxy/redis: the RESP encoder (encoder.go) over a bufio.Writer.     *)
(* A writer is [buf, out, err]: the bytes buffered, the bytes the          *)
(* underlying io.Writer has accepted, and the writer's sticky error.  The  *)
(* underlying writer accepts ecap bytes in all and fails from then on      *)
(* (Unlimited: it never fails).                                            *)
(***************************************************************************)
ErrWrite == "ErrWrite"
ErrFailedEncoder == "ErrFailedEncoder"
Unlimited == -1

\* errors.Trace (pkg/utils/errors): records a stack trace with the error and
\* returns nil for nil; the trace is not modelled
Trace(err) == err

\* bufio.Writer.Flush on writer w
bwFlush(w) ==
  IF w.err # Nil \/ w.buf = <<>> THEN w
  ELSE LET room == IF ecap = Unlimited THEN Len(w.buf)
                   ELSE ecap - Len(w.out)
       IN  IF Len(w.buf) <= room
           THEN [buf |-> <<>>, out |-> w.out \o w.buf, err |-> Nil]
           ELSE [buf |-> SubSeq(w.buf, room + 1, Len(w.buf)),
                 out |-> w.out \o SubSeq(w.buf, 1, room),
                 err |-> ErrWrite]

\* bufio.Writer.WriteByte
bwWriteByte(w, c) ==
  IF w.err # Nil THEN w
  ELSE LET f == IF Len(w.buf) = BufSize THEN bwFlush(w) ELSE w IN
       IF f.err # Nil THEN f ELSE [f EXCEPT !.buf = Append(@, c)]

\* bufio.Writer.Write and WriteString of at most BufSize bytes: the buffer
\* is filled, flushed when more is to come, and the rest is buffered
RECURSIVE bwWrite(_, _)
bwWrite(w, p) ==
  IF p = <<>> THEN w ELSE bwWrite(bwWriteByte(w, Head(p)), Tail(p))

\* one write of the encoder: skipped after an error, which it returns
Wr(res, p) ==
  IF res.err # Nil THEN res
  ELSE LET w == bwWrite(res.w, p) IN [w |-> w, err |-> Trace(w.err)]

RECURSIVE ItoaNat(_)
ItoaNat(n) ==
  IF n < 10 THEN <<Digits[n + 1]>>
  ELSE ItoaNat(n \div 10) \o <<Digits[(n % 10) + 1]>>

\* strconv.FormatInt(i, 10) and strconv.Itoa(i)
FormatInt(i) == IF i < 0 THEN <<"-">> \o ItoaNat(0 - i) ELSE ItoaNat(i)

\* the value of an int64 expression: two's complement of IntBits bits
Int64Min == 0 - 2 ^ (IntBits - 1)
Int64Max == 2 ^ (IntBits - 1) - 1
Int64(x) == ((x - Int64Min) % (2 ^ IntBits)) + Int64Min

\* init lines 20-27: itoamap[n] (and itobmap[n], its bytes) is
\* strconv.Itoa(n - 1024); an index outside the table panics
itoamap(n) ==
  IF n >= 0 /\ n < ItoaLen THEN FormatInt(n - ItoaOffset) ELSE <<"panic">>

\* itoxIndex taking the index one past the table as well
itoxIndex_inclusive(i) ==
  Only({ (IF i < n /\ n >= 0 /\ n <= ItoaLen THEN n ELSE 0 - 1)
         : n \in {Int64(i + ItoaOffset)} })

\* itoxIndex lines 29-37
itoxIndex(i) ==
  Only({ (IF i < n /\ n >= 0 /\ n < ItoaLen THEN n ELSE 0 - 1)
         : n \in {Int64(i + ItoaOffset)} })

\* itoa lines 39-44 and itob lines 46-51: from the table, or from
\* strconv.FormatInt
itoa(i) ==
  Only({ (IF n >= 0 THEN itoamap(n) ELSE FormatInt(i))
         : n \in {itoxIndex(i)} })

\* Encoder.encodeTextBytes and encodeTextString
encodeTextBytes(res, b) == Wr(Wr(res, b), <<CR, LF>>)

\* Encoder.encodeInt
encodeInt(res, v) == encodeTextBytes(res, itoa(v))

\* Encoder.encodeBulkBytes writing a nil value as an empty one
encodeBulkBytes_nullAsEmpty(res, value, null) ==
  encodeTextBytes(encodeInt(res, Len(value)), value)

\* Encoder.encodeBulkBytes
encodeBulkBytes(res, value, null) ==
  IF null THEN encodeInt(res, -1)
  ELSE encodeTextBytes(encodeInt(res, Len(value)), value)

RECURSIVE encodeResp(_, _)
RECURSIVE encodeElems(_, _)

\* the loop of encodeArray
encodeElems(res, array) ==
  IF array = <<>> \/ res.err # Nil THEN res
  ELSE encodeElems(encodeResp(res, Head(array)), Tail(array))

\* Encoder.encodeArray
encodeArray(res, array, null) ==
  IF null THEN encodeInt(res, -1)
  ELSE encodeElems(encodeInt(res, Len(array)), array)

\* Encoder.encodeResp
encodeResp(res, r) ==
  LET t == Wr(res, <<r.type>>) IN
  IF t.err # Nil THEN t
  ELSE IF r.type \in {TypeString, TypeError, TypeInt}
  THEN encodeTextBytes(t, r.value)
  ELSE IF r.type = TypeBulkBytes THEN encodeBulkBytes(t, r.value, r.null)
  ELSE IF r.type = TypeArray THEN encodeArray(t, r.array, r.null)
  ELSE [t EXCEPT !.err = ErrBadRespType]

\* Encoder.encodeMultiBulk
encodeMultiBulk(res, multi, null) ==
  encodeArray(Wr(res, <<TypeArray>>), multi, null)

\* the flush that follows a successful encode when flush is set
flushAfter(res, flush) ==
  IF res.err # Nil \/ ~flush THEN res
  ELSE LET f == bwFlush(res.w) IN [w |-> f, err |-> Trace(f.err)]

\* the frame of an Encoder call
Encoder_frame ==
  /\ UNCHANGED <<bvars, svars, rvars, kvars, dvars, fvars, wtvars, rdvars,
                 ovars>>
  /\ UNCHANGED ecap

\* what a call records: it counts, its result is kept, and efailed remembers
\* that some call has failed
Encoder_return(op, err) ==
  /\ encall' = encall + 1
  /\ elast' = [op |-> op, err |-> err]
  /\ efailed' = (efailed \/ err # Nil)

\* a failed Encoder refuses the call
Encoder_refuse(op) ==
  /\ Encoder_return(op, Trace(ErrFailedEncoder))
  /\ UNCHANGED <<ew, eErr>>

\* Encode going on without looking at e.Err
Encode_noLatch(r, flush) ==
  /\ encall < MaxCalls
  /\ LET res == flushAfter(encodeResp([w |-> ew, err |-> Nil], r), flush) IN
       /\ ew' = res.w
       /\ eErr' = res.err
       /\ Encoder_return("Encode", res.err)
  /\ Encoder_frame

\* Encoder.Encode lines 73-83
Encode(r, flush) ==
  /\ encall < MaxCalls
  /\ IF eErr # Nil THEN Encoder_refuse("Encode")
     ELSE LET res == flushAfter(encodeResp([w |-> ew, err |-> Nil], r),
                                flush)
          IN  /\ ew' = res.w
              /\ eErr' = res.err
              /\ Encoder_return("Encode", res.err)
  /\ Encoder_frame

\* Encoder.EncodeMultiBulk lines 85-94
EncodeMultiBulk(multi, null, flush) ==
  /\ encall < MaxCalls
  /\ IF eErr # Nil THEN Encoder_refuse("EncodeMultiBulk")
     ELSE LET res == flushAfter(
                       encodeMultiBulk([w |-> ew, err |-> Nil], multi, null),
                       flush)
          IN  /\ ew' = res.w
              /\ eErr' = res.err
              /\ Encoder_return("EncodeMultiBulk", res.err)
  /\ Encoder_frame

\* Encoder.Flush lines 96-104
EncoderFlush ==
  /\ encall < MaxCalls
  /\ IF eErr # Nil THEN Encoder_refuse("Flush")
     ELSE LET f == bwFlush(ew) IN
            /\ ew' = f
            /\ eErr' = Trace(f.err)
            /\ Encoder_return("Flush", Trace(f.err))
  /\ Encoder_frame

\* an Encoder that is not in use
InitE ==
  /\ ew = [buf |-> <<>>, out |-> <<>>, err |-> Nil]
  /\ ecap = Unlimited
  /\ eErr = Nil
  /\ encall = 0
  /\ elast = [op |-> "none", err |-> Nil]
  /\ efailed = FALSE

\* the values handed to Encode: every type, null and empty bulk and array,
\* a nested array, and a value of no RESP type
Resps ==
  { NewResp(TypeString, <<"a">>, <<>>, FALSE),
    NewResp(TypeInt, <<"1", "0">>, <<>>, FALSE),
    NewBulkBytes(<<"a">>),
    NewBulkBytes(<<>>),
    NewResp(TypeBulkBytes, <<>>, <<>>, TRUE),
    NewResp(TypeArray, <<>>, <<NewBulkBytes(<<"b">>)>>, FALSE),
    NewResp(TypeArray, <<>>, <<>>, TRUE),
    NewResp(TypeArray, <<>>,
            <<NewResp(TypeArray, <<>>, <<>>, FALSE)>>, FALSE),
    NewResp("?", <<"a">>, <<>>, FALSE) }

\* the arrays handed to EncodeMultiBulk
Multis ==
  { <<NewBulkBytes(<<"a">>)>>,
    <<NewBulkBytes(<<"a">>), NewBulkBytes(<<"b">>)>>,
    <<NewResp("?", <<>>, <<>>, FALSE)>> }

(***************************************************************************)
(* pkg/proxy/redis/bufio.go: the buffered Writer.  wtr.buf is buf[:end],   *)
(* so end is Len(wtr.buf) and len(buf) is WriterSize.  The io.Writer under *)
(* it answers its next calls as wtr.plan says and accepts everything once  *)
(* the plan is used up.                                                    *)
(***************************************************************************)
ErrShortWrite == "ErrShortWrite"

\* what one Write(p) of the io.Writer can answer: all of p and no error;
\* nothing and an error; all but one byte and an error; all but one byte
\* and no error
WrOutcomes == {"ok", "err", "errPartial", "short"}

\* wr.Write(p), p not empty, called from Write (direct) or from flush:
\* [w, n, err]; w.failed collects the ways in which it has failed
wrWrite(w, p, direct) ==
  LET o == IF w.plan = <<>> THEN "ok" ELSE Head(w.plan)
      n == IF o = "ok" THEN Len(p) ELSE IF o = "err" THEN 0 ELSE Len(p) - 1
      err == IF o \in {"err", "errPartial"} THEN ErrWrite ELSE Nil
      how == IF err # Nil THEN {"err"}
             ELSE IF n = Len(p) THEN {}
             ELSE IF direct THEN {"shortDirect"} ELSE {"shortFlush"}
  IN  [w |-> [w EXCEPT !.out = @ \o SubSeq(p, 1, n),
                       !.nwr = @ + 1,
                       !.plan = IF @ = <<>> THEN @ ELSE Tail(@),
                       !.failed = @ \cup how],
       n |-> n, err |-> err]

\* Writer.flush going on to write although b.err is set
Writer_flush_again(w) ==
  IF w.buf = <<>> THEN w
  ELSE Only({ (IF r.err # Nil THEN [r.w EXCEPT !.err = r.err]
               ELSE IF r.n < Len(w.buf) THEN [r.w EXCEPT !.err = ErrShortWrite]
               ELSE [r.w EXCEPT !.buf = <<>>])
              : r \in {wrWrite(w, w.buf, FALSE)} })

\* Writer.flush lines 217-233; what it returns is the err of the result
Writer_flush(w) ==
  IF w.err # Nil \/ w.buf = <<>> THEN w
  ELSE Only({ (IF r.err # Nil THEN [r.w EXCEPT !.err = r.err]
               ELSE IF r.n < Len(w.buf) THEN [r.w EXCEPT !.err = ErrShortWrite]
               ELSE [r.w EXCEPT !.buf = <<>>])
              : r \in {wrWrite(w, w.buf, FALSE)} })

\* Writer.available
available(w) == WriterSize - Len(w.buf)

\* the loop of Writer.Write lines 240-250: [w, p, nn] when it ends
RECURSIVE Write_loop(_, _, _)
Write_loop(w, p, nn) ==
  IF w.err = Nil /\ Len(p) > available(w)
  THEN IF w.buf = <<>>
       THEN Only({ Write_loop([r.w EXCEPT !.err = r.err],
                              SubSeq(p, r.n + 1, Len(p)), nn + r.n)
                   : r \in {wrWrite(w, p, TRUE)} })
       ELSE Only({ Write_loop(
                     Writer_flush([w EXCEPT !.buf = @ \o SubSeq(p, 1, n)]),
                     SubSeq(p, n + 1, Len(p)), nn + n)
                   : n \in {available(w)} })
  ELSE [w |-> w, p |-> p, nn |-> nn]

\* the loop of Writer.WriteString lines 272-277
RECURSIVE WriteString_loop(_, _, _)
WriteString_loop(w, s, nn) ==
  IF w.err = Nil /\ Len(s) > available(w)
  THEN Only({ WriteString_loop(
                Writer_flush([w EXCEPT !.buf = @ \o SubSeq(s, 1, n)]),
                SubSeq(s, n + 1, Len(s)), nn + n)
              : n \in {available(w)} })
  ELSE [w |-> w, p |-> s, nn |-> nn]

\* the end of Write and of WriteString, lines 251-256 and 278-283, l being
\* what the loop left: [w, nn, err]
Write_end(l) ==
  IF l.w.err # Nil \/ l.p = <<>>
  THEN [w |-> l.w, nn |-> l.nn, err |-> l.w.err]
  ELSE [w |-> [l.w EXCEPT !.buf = @ \o l.p], nn |-> l.nn + Len(l.p),
        err |-> Nil]

\* the frame of a Writer call
Writer_frame ==
  UNCHANGED <<bvars, svars, rvars, kvars, dvars, evars, fvars, rdvars,
                 ovars>>

\* what a call records: it counts, and its result is kept with the error
\* that was stored when it began
Writer_return(op, nn, err) ==
  /\ wncall' = wncall + 1
  /\ wlast' = [op |-> op, nn |-> nn, err |-> err, pre |-> wtr.err]

\* Writer.Write lines 239-257
Write(p) ==
  /\ wncall < MaxCalls
  /\ \E r \in {Write_end(Write_loop(wtr, p, 0))} :
       /\ wtr' = r.w
       /\ Writer_return("Write", r.nn, r.err)
  /\ Writer_frame

\* Writer.WriteString lines 271-284
WriteString(s) ==
  /\ wncall < MaxCalls
  /\ \E r \in {Write_end(WriteString_loop(wtr, s, 0))} :
       /\ wtr' = r.w
       /\ Writer_return("WriteString", r.nn, r.err)
  /\ Writer_frame

\* Writer.WriteByte lines 259-269
WriteByte(c) ==
  /\ wncall < MaxCalls
  /\ IF wtr.err # Nil
     THEN /\ wtr' = wtr
          /\ Writer_return("WriteByte", 0, wtr.err)
     ELSE \E f \in {IF available(wtr) = 0 THEN Writer_flush(wtr) ELSE wtr} :
            IF f.err # Nil
            THEN /\ wtr' = f
                 /\ Writer_return("WriteByte", 0, f.err)
            ELSE /\ wtr' = [f EXCEPT !.buf = Append(@, c)]
                 /\ Writer_return("WriteByte", 1, Nil)
  /\ Writer_frame

\* Writer.Flush lines 213-215
WriterFlush ==
  /\ wncall < MaxCalls
  /\ \E f \in {Writer_flush(wtr)} :
       /\ wtr' = f
       /\ Writer_return("Flush", 0, f.err)
  /\ Writer_frame

\* NewWriterSize: a Writer that is not in use
InitW ==
  /\ wtr = [buf |-> <<>>, err |-> Nil, out |-> <<>>, nwr |-> 0,
            plan |-> <<>>, failed |-> {}]
  /\ wlast = [op |-> "none", nn |-> 0, err |-> Nil, pre |-> Nil]
  /\ wncall = 0

\* the answers of the io.Writer to its first n calls
RECURSIVE PlansOf(_)
PlansOf(n) ==
  IF n = 0 THEN {<<>>}
  ELSE PlansOf(n - 1)
       \cup {Append(q, o) : q \in PlansOf(n - 1), o \in WrOutcomes}

\* what is handed to Write and WriteString: nothing, less than the buffer
\* holds, as much, and more
WriteArgs == {SubSeq(<<"a", "b", "c", "d", "e", "f">>, 1, n)
              : n \in 0..(WriterSize + 1)}

(***************************************************************************)
(* pkg/proxy/redis/bufio.go: the buffered Reader.  rdr.buf has ReaderSize  *)
(* bytes; the io.Reader under it has delivered the first rdr.off bytes of  *)
(* rdr.stream, delivers at each of its next calls as many bytes as         *)
(* rdr.plan says (0: none and no error, -1: an error), then as many as     *)
(* fit, and io.EOF once the stream is used up.                             *)
(***************************************************************************)
ErrBufferFull == "ErrBufferFull"
ErrNoProgress == "ErrNoProgress"
ErrSliceTooLong == "ErrSliceTooLong"

\* bytes.IndexByte: the index of the first c in b, -1 without one
IndexByte(b, c) ==
  IF \E i \in 1..Len(b) : b[i] = c
  THEN (CHOOSE i \in 1..Len(b) :
          b[i] = c /\ \A j \in 1..(i - 1) : b[j] # c) - 1
  ELSE -1

\* rd.Read(p) with len(p) = room > 0, p being buf[wpos:]: [r, n, err]
rdRead(r, room) ==
  LET k == IF r.plan = <<>> THEN room ELSE Head(r.plan)
      left == Len(r.stream) - r.off
      m == IF k < room THEN k ELSE room
      n == IF k < 0 THEN 0 ELSE IF m < left THEN m ELSE left
      err == IF k < 0 THEN ReadErr ELSE IF left = 0 THEN ErrEOF ELSE Nil
  IN  [r |-> [r EXCEPT
                !.buf = [i \in 1..ReaderSize |->
                           IF i > r.wpos /\ i <= r.wpos + n
                           THEN r.stream[r.off + (i - r.wpos)]
                           ELSE r.buf[i]],
                !.off = @ + n,
                !.nrd = @ + 1,
                !.plan = IF @ = <<>> THEN @ ELSE Tail(@)],
       n |-> n, err |-> err]

\* Reader.fill resetting rpos and wpos without moving the unread bytes
Reader_compact_inPlace(r) ==
  IF r.rpos > 0
  THEN [r EXCEPT !.rpos = 0, !.wpos = r.wpos - r.rpos]
  ELSE r

\* Reader.fill lines 45-49: the unread bytes move to the front of buf
Reader_compact(r) ==
  IF r.rpos > 0
  THEN [r EXCEPT !.buf = [i \in 1..ReaderSize |->
                            IF i <= r.wpos - r.rpos THEN r.buf[r.rpos + i]
                            ELSE r.buf[i]],
                 !.rpos = 0,
                 !.wpos = r.wpos - r.rpos]
  ELSE r

\* Reader.fill lines 41-59; what it returns is the err of the result
Reader_fill(r) ==
  IF r.err # Nil THEN r
  ELSE Only({ (IF x.err # Nil THEN [x.r EXCEPT !.err = x.err]
               ELSE IF x.n = 0 THEN [x.r EXCEPT !.err = ErrNoProgress]
               ELSE [x.r EXCEPT !.wpos = @ + x.n])
              : x \in {rdRead(c, ReaderSize - c.wpos)
                       : c \in {Reader_compact(r)}} })

\* Reader.buffered
buffered(r) == r.wpos - r.rpos

\* the loop of Reader.ReadSlice lines 117-132: [r, b, err]
RECURSIVE ReadSlice_loop(_, _)
ReadSlice_loop(r, delim) ==
  Only({ (IF index >= 0
          THEN [r |-> [r EXCEPT !.rpos = r.rpos + index + 1],
                b |-> SubSeq(r.buf, r.rpos + 1, r.rpos + index + 1),
                err |-> Nil]
          ELSE IF buffered(r) = ReaderSize
          THEN [r |-> [r EXCEPT !.rpos = r.wpos], b |-> r.buf,
                err |-> ErrBufferFull]
          ELSE Only({ (IF f.err # Nil
                       THEN [r |-> f, b |-> <<>>, err |-> f.err]
                       ELSE ReadSlice_loop(f, delim))
                      : f \in {Reader_fill(r)} }))
         : index \in {IndexByte(SubSeq(r.buf, r.rpos + 1, r.wpos), delim)} })

\* Reader.ReadSlice lines 113-133
Reader_ReadSlice(r, delim) ==
  IF r.err # Nil THEN [r |-> r, b |-> <<>>, err |-> r.err]
  ELSE ReadSlice_loop(r, delim)

\* the loop of Reader.ReadBytes lines 139-159, full being the fragments
\* copied so far: [r, b, err]
RECURSIVE ReadBytes_loop(_, _, _)
ReadBytes_loop(r, delim, full) ==
  Only({ (IF f.err = Nil THEN [r |-> f.r, b |-> full \o f.b, err |-> Nil]
          ELSE IF f.err # ErrBufferFull
          THEN [r |-> f.r, b |-> <<>>, err |-> f.r.err]
          ELSE ReadBytes_loop(f.r, delim, full \o f.b))
         : f \in {Reader_ReadSlice(r, delim)} })

\* Reader.ReadSlice2 lines 164-185: [r, b, err, n], n counting its calls
\* of ReadSlice
Reader_ReadSlice2(r, delim, maxlen) ==
  Only({ (IF f.err = Nil THEN [r |-> f.r, b |-> f.b, err |-> Nil, n |-> 1]
          ELSE IF f.err # ErrBufferFull
          THEN [r |-> f.r, b |-> <<>>, err |-> f.err, n |-> 1]
          ELSE IF Len(f.b) > maxlen
          THEN [r |-> f.r, b |-> <<>>, err |-> ErrSliceTooLong, n |-> 1]
          ELSE Only({ (IF sfx.err # Nil
                       THEN [r |-> sfx.r, b |-> <<>>, err |-> sfx.err,
                             n |-> 2]
                       ELSE IF Len(f.b) + Len(sfx.b) > maxlen
                       THEN [r |-> sfx.r, b |-> <<>>,
                             err |-> ErrSliceTooLong, n |-> 2]
                       ELSE [r |-> sfx.r, b |-> f.b \o sfx.b, err |-> Nil,
                             n |-> 2])
                      : sfx \in {Reader_ReadSlice(f.r, delim)} }))
         : f \in {Reader_ReadSlice(r, delim)} })

\* how many bytes of the stream the Reader's callers have consumed
Reader_pos(r) == r.off - buffered(r)

\* the frame of a Reader call
Reader_frame ==
  UNCHANGED <<bvars, svars, rvars, kvars, dvars, evars, fvars, wtvars,
              ovars>>

\* what a call records: it counts, and its result is kept with the position
\* it began at, its maxlen, the ReadSlice calls it made and the Reader's err
\* when it began
Reader_return(op, res, n, maxlen) ==
  /\ rdr' = res.r
  /\ rncall' = rncall + 1
  /\ rlast' = [op |-> op, b |-> res.b, err |-> res.err, n |-> n,
               pos |-> Reader_pos(rdr), maxlen |-> maxlen, was |-> rdr.err]

\* Reader.ReadByte handing out a buffered byte before it looks at err
Reader_ReadByte_bufferedFirst ==
  /\ rncall < MaxCalls
  /\ \E f \in {IF rdr.err = Nil /\ buffered(rdr) = 0 THEN Reader_fill(rdr)
               ELSE rdr} :
       IF buffered(f) = 0
       THEN Reader_return("ReadByte", [r |-> f, b |-> <<>>, err |-> f.err],
                          0, 0)
       ELSE Reader_return("ReadByte",
                          [r |-> [f EXCEPT !.rpos = @ + 1],
                           b |-> <<f.buf[f.rpos + 1]>>, err |-> Nil], 0, 0)
  /\ Reader_frame

\* Reader.ReadByte lines 86-98
Reader_ReadByte ==
  /\ rncall < MaxCalls
  /\ \E f \in {IF rdr.err = Nil /\ buffered(rdr) = 0 THEN Reader_fill(rdr)
               ELSE rdr} :
       IF f.err # Nil
       THEN Reader_return("ReadByte", [r |-> f, b |-> <<>>, err |-> f.err],
                          0, 0)
       ELSE Reader_return("ReadByte",
                          [r |-> [f EXCEPT !.rpos = @ + 1],
                           b |-> <<f.buf[f.rpos + 1]>>, err |-> Nil], 0, 0)
  /\ Reader_frame

\* Reader.PeekByte lines 100-111
Reader_PeekByte ==
  /\ rncall < MaxCalls
  /\ \E f \in {IF rdr.err = Nil /\ buffered(rdr) = 0 THEN Reader_fill(rdr)
               ELSE rdr} :
       IF f.err # Nil
       THEN Reader_return("PeekByte", [r |-> f, b |-> <<>>, err |-> f.err],
                          0, 0)
       ELSE Reader_return("PeekByte",
                          [r |-> f, b |-> <<f.buf[f.rpos + 1]>>,
                           err |-> Nil], 0, 0)
  /\ Reader_frame

\* Reader.Read lines 70-76: with nothing buffered and len(p) >= len(buf) the
\* io.Reader reads into p, past the buffer: [r, b, err]
Read_direct(r, plen) ==
  Only({ [r |-> [x.r EXCEPT !.buf = r.buf,
                            !.err = IF x.err # Nil THEN x.err ELSE @],
          b |-> SubSeq(r.stream, r.off + 1, r.off + x.n),
          err |-> x.err]
         : x \in {rdRead(r, plen)} })

\* Reader.Read lines 81-83: copy(p, b.buf[b.rpos:b.wpos])
Read_copy(r, plen) ==
  Only({ [r |-> [r EXCEPT !.rpos = @ + n],
          b |-> SubSeq(r.buf, r.rpos + 1, r.rpos + n), err |-> Nil]
         : n \in {IF plen < buffered(r) THEN plen ELSE buffered(r)} })

\* Reader.Read lines 65-84, p having plen bytes: [r, b, err]
Reader_Read(r, plen) ==
  IF r.err # Nil \/ plen = 0 THEN [r |-> r, b |-> <<>>, err |-> r.err]
  ELSE IF buffered(r) # 0 THEN Read_copy(r, plen)
  ELSE IF plen >= ReaderSize THEN Read_direct(r, plen)
  ELSE Only({ (IF f.err # Nil THEN [r |-> f, b |-> <<>>, err |-> f.err]
               ELSE Read_copy(f, plen))
              : f \in {Reader_fill(r)} })

\* a call of Reader.Read
Reader_CallRead(plen) ==
  /\ rncall < MaxCalls
  /\ \E res \in {Reader_Read(rdr, plen)} :
       Reader_return("Read", res, Len(res.b), 0)
  /\ Reader_frame

\* a call of Reader.ReadSlice
Reader_CallReadSlice(delim) ==
  /\ rncall < MaxCalls
  /\ \E res \in {Reader_ReadSlice(rdr, delim)} :
       Reader_return("ReadSlice", res, 1, 0)
  /\ Reader_frame

\* a call of Reader.ReadBytes
Reader_CallReadBytes(delim) ==
  /\ rncall < MaxCalls
  /\ \E res \in {ReadBytes_loop(rdr, delim, <<>>)} :
       Reader_return("ReadBytes", res, 0, 0)
  /\ Reader_frame

\* a call of Reader.ReadSlice2
Reader_CallReadSlice2(delim, maxlen) ==
  /\ rncall < MaxCalls
  /\ \E res \in {Reader_ReadSlice2(rdr, delim, maxlen)} :
       Reader_return("ReadSlice2", res, res.n, maxlen)
  /\ Reader_frame

\* NewReaderSize: a Reader that is not in use
InitRd ==
  /\ rdr = [buf |-> [i \in 1..ReaderSize |-> ""], rpos |-> 0, wpos |-> 0,
            err |-> Nil, stream |-> <<>>, off |-> 0, plan |-> <<>>,
            nrd |-> 0]
  /\ rlast = [op |-> "none", b |-> <<>>, err |-> Nil, n |-> 0, pos |-> 0,
              maxlen |-> 0, was |-> Nil]
  /\ rncall = 0

\* what the io.Reader delivers at its first n calls
RECURSIVE ReadPlans(_)
ReadPlans(n) ==
  IF n = 0 THEN {<<>>}
  ELSE ReadPlans(n - 1)
       \cup {Append(q, k) : q \in ReadPlans(n - 1), k \in {-1, 0, 1}}

\* the streams read: a line of up to MaxLine bytes, all different, and the
\* beginning of a second line, which ends or not
ReadStreams ==
  { SubSeq(<<"a", "b", "c", "d", "e", "f", "g", "h">>, 1, k) \o <<LF>>
      \o SubSeq(<<"x", "y">>, 1, m) \o t
    : k \in 0..MaxLine, m \in 0..2, t \in {<<>>, <<LF>>} }

(***************************************************************************)
(* The command classifier (mapper): hashSlot.  A 32-bit word is the set of *)
(* the positions of its one bits, 0 being the lowest.                      *)
(***************************************************************************)
\* models.MaxSlotNum, the number of slots of a cluster
HashSlotNum == 1024

\* the bytes keys are made of
Ord ==
  ("a" :> 97) @@ ("b" :> 98) @@ ("{" :> 123) @@ ("}" :> 125)
  @@ ("e" :> 101) @@ ("x" :> 120) @@ ("t" :> 116) @@ ("r" :> 114)

Word32 == 0..31
ByteBits(n) == {i \in 0..7 : (n \div (2 ^ i)) % 2 = 1}
XorBits(a, b) == {i \in Word32 : (i \in a) # (i \in b)}
ShiftRight1(a) == {i \in Word32 : (i + 1) \in a}

\* crc32.IEEE reversed: 0xedb88320
IEEEPoly == {5, 8, 9, 15, 19, 20, 21, 23, 24, 26, 27, 29, 30, 31}

\* n steps of the bitwise CRC: shift right, and xor the polynomial in when
\* the bit shifted out is one
RECURSIVE crcBits(_, _)
crcBits(crc, n) ==
  IF n = 0 THEN crc
  ELSE Only({ crcBits(c, n - 1)
              : c \in {IF 0 \in crc THEN XorBits(ShiftRight1(crc), IEEEPoly)
                                     ELSE ShiftRight1(crc)} })

\* crc32.Update over the bytes of p
RECURSIVE crcUpdate(_, _)
crcUpdate(crc, p) ==
  IF p = <<>> THEN crc
  ELSE Only({ crcUpdate(c, Tail(p))
              : c \in {crcBits(XorBits(crc, ByteBits(Ord[Head(p)])), 8)} })

\* crc32.ChecksumIEEE(p): the register starts and ends inverted
ChecksumIEEE(p) == XorBits(Word32, crcUpdate(Word32, p))

\* word % m, from the highest bit down
RECURSIVE ModBits(_, _, _)
ModBits(word, m, n) ==
  IF n = 0 THEN 0
  ELSE Only({ (2 * ModBits(w, m, n - 1) + (IF 0 \in word THEN 1 ELSE 0)) % m
              : w \in {ShiftRight1(word)} })

\* hashSlot hashing the whole key, braces or not
hashSlot_wholeKey(key) == ModBits(ChecksumIEEE(key), HashSlotNum, 32)

\* hashSlot
hashSlot(key) ==
  ModBits(
    ChecksumIEEE(
      Only({ (IF beg < 0 THEN key
              ELSE Only({ (IF end < 0 THEN key
                           ELSE SubSeq(key, beg + 2, beg + 1 + end))
                          : end \in {IndexByte(
                                       SubSeq(key, beg + 2, Len(key)),
                                       "}")} }))
             : beg \in {IndexByte(key, "{")} })),
    HashSlotNum, 32)

\* the frame of a call of the classifier
Mapper_frame ==
  /\ UNCHANGED <<bvars, svars, rvars, kvars, dvars, evars, wtvars, rdvars,
                 ovars>>
  /\ UNCHANGED farg

\* hashSlot(k) is computed for the key k at hand
HashKey ==
  /\ Len(fres) = 0
  /\ fres' = <<hashSlot(farg[1])>>
  /\ Mapper_frame

\* then hashSlot("{" + k + "}extra")
HashTagged ==
  /\ Len(fres) = 1
  /\ fres' = Append(fres, hashSlot(<<"{">> \o farg[1]
                                   \o <<"}", "e", "x", "t", "r", "a">>))
  /\ Mapper_frame

\* the opcodes init puts in the map blacklist
blacklist ==
  { "KEYS", "MOVE", "OBJECT", "RENAME", "RENAMENX", "SCAN", "BITOP",
    "MSETNX", "MIGRATE", "RESTORE", "BLPOP", "BRPOP", "BRPOPLPUSH",
    "PSUBSCRIBE", "PUBLISH", "PUNSUBSCRIBE", "SUBSCRIBE", "RANDOMKEY",
    "UNSUBSCRIBE", "DISCARD", "EXEC", "MULTI", "UNWATCH", "WATCH", "SCRIPT",
    "BGREWRITEAOF", "BGSAVE", "CLIENT", "CONFIG", "DBSIZE", "DEBUG",
    "FLUSHALL", "FLUSHDB", "LASTSAVE", "MONITOR", "SAVE", "SHUTDOWN",
    "SLAVEOF", "SLOWLOG", "SYNC", "TIME", "SLOTSINFO", "SLOTSDEL",
    "SLOTSMGRTSLOT", "SLOTSMGRTONE", "SLOTSMGRTTAGSLOT", "SLOTSMGRTTAGONE",
    "SLOTSCHECK" }

\* the opcodes init puts in the map redisfast, each mapped to itself
redisfast ==
  { "GET", "SET", "SETNX", "SETEX", "PSETEX", "APPEND", "STRLEN", "DEL",
    "EXISTS", "SETBIT", "GETBIT", "SETRANGE", "GETRANGE", "SUBSTR", "INCR",
    "DECR", "MGET", "RPUSH", "LPUSH", "RPUSHX", "LPUSHX", "LINSERT", "RPOP",
    "LPOP", "BRPOP", "BRPOPLPUSH", "BLPOP", "LLEN", "LINDEX", "LSET",
    "LRANGE", "LTRIM", "LREM", "RPOPLPUSH", "SADD", "SREM", "SMOVE",
    "SISMEMBER", "SCARD", "SPOP", "SRANDMEMBER", "SINTER", "SINTERSTORE",
    "SUNION", "SUNIONSTORE", "SDIFF", "SDIFFSTORE", "SMEMBERS", "SSCAN",
    "ZADD", "ZINCRBY", "ZREM", "ZREMRANGEBYSCORE", "ZREMRANGEBYRANK",
    "ZREMRANGEBYLEX", "ZUNIONSTORE", "ZINTERSTORE", "ZRANGE",
    "ZRANGEBYSCORE", "ZREVRANGEBYSCORE", "ZRANGEBYLEX", "ZREVRANGEBYLEX",
    "ZCOUNT", "ZLEXCOUNT", "ZREVRANGE", "ZCARD", "ZSCORE", "ZRANK",
    "ZREVRANK", "ZSCAN", "HSET", "HSETNX", "HGET", "HMSET", "HMGET",
    "HINCRBY", "HINCRBYFLOAT", "HDEL", "HLEN", "HKEYS", "HVALS", "HGETALL",
    "HEXISTS", "HSCAN", "INCRBY", "DECRBY", "INCRBYFLOAT", "GETSET", "MSET",
    "MSETNX", "RANDOMKEY", "SELECT", "MOVE", "RENAME", "RENAMENX", "EXPIRE",
    "EXPIREAT", "PEXPIRE", "PEXPIREAT", "KEYS", "SCAN", "DBSIZE", "AUTH",
    "PING", "ECHO", "SAVE", "BGSAVE", "BGREWRITEAOF", "SHUTDOWN",
    "LASTSAVE", "TYPE", "MULTI", "EXEC", "DISCARD", "SYNC", "PSYNC",
    "REPLCONF", "FLUSHDB", "FLUSHALL", "SORT", "INFO", "MONITOR", "TTL",
    "PTTL", "PERSIST", "SLAVEOF", "ROLE", "DEBUG", "CONFIG", "SUBSCRIBE",
    "UNSUBSCRIBE", "PSUBSCRIBE", "PUNSUBSCRIBE", "PUBLISH", "PUBSUB",
    "WATCH", "UNWATCH", "RESTORE", "MIGRATE", "DUMP", "OBJECT", "CLIENT",
    "EVAL", "EVALSHA", "SLOWLOG", "SCRIPT", "TIME", "BITOP", "BITCOUNT",
    "BITPOS", "COMMAND", "PFSELFTEST", "PFADD", "PFCOUNT", "PFMERGE",
    "PFDEBUG", "LATENCY", "SLOTSINFO", "SLOTSDEL", "SLOTSMGRTSLOT",
    "SLOTSMGRTONE", "SLOTSMGRTTAGSLOT", "SLOTSMGRTTAGONE", "SLOTSHASHKEY",
    "SLOTSCHECK", "SLOTSRESTORE" }

\* isNotAllowed refusing the opcodes redisfast does not hold
isNotAllowed_unknown(opstr) ==
  opstr \notin redisfast

\* isNotAllowed
isNotAllowed(opstr) ==
  opstr \in blacklist

\* the opcode at hand is classified: is it refused, and does getOpStr find
\* it in redisfast
Classify ==
  /\ fres = <<>>
  /\ fres' = <<[notAllowed |-> isNotAllowed(farg[1]),
                interned |-> farg[1] \in redisfast]>>
  /\ Mapper_frame

\* the frame of a call of itoa
Itoa_frame ==
  /\ UNCHANGED <<bvars, svars, rvars, kvars, dvars, evars, wtvars, rdvars,
                 ovars>>
  /\ UNCHANGED farg

\* itoxIndex(i) and itoa(i) are computed for the integer i at hand
Itoa_call ==
  /\ Len(fres) = 0
  /\ fres' = <<[idx |-> itoxIndex(farg[1]), a |-> itoa(farg[1])]>>
  /\ Itoa_frame

\* a command classifier, or a value, that is not in use
InitF ==
  /\ farg = <<>>
  /\ fres = <<>>

InitK ==
  /\ kpc = "idle"
  /\ kret = "none"

(***************************************************************************)
(* backend.go: FlushPolicy in the loop of the backend writer, with the     *)
(* requests counted and the clock read                                     *)
(***************************************************************************)
\* FlushPolicy.NeedFlush flushing as soon as MaxBuffered requests are buffered
FlushPolicy_NeedFlush_atLimit(nb, since) ==
  nb # 0 /\ (nb >= MaxBuffered \/ since > MaxIntervalMs)

\* FlushPolicy.NeedFlush; since is utils.Microseconds() - Conn.LastWriteMs
FlushPolicy_NeedFlush(nb, since) ==
  nb # 0 /\ (nb > MaxBuffered \/ since > MaxIntervalMs)

\* FlushPolicy.Flush(force); ok is whether Conn.Writer.Flush succeeds.  The
\* result is [nbuffered, err, wrote].
FlushPolicy_Flush(nb, force, since, ok) ==
  IF force \/ FlushPolicy_NeedFlush(nb, since)
  THEN IF ok
       THEN [nbuffered |-> 0, err |-> Nil, wrote |-> TRUE]
       ELSE [nbuffered |-> nb, err |-> FlushErr, wrote |-> FALSE]
  ELSE [nbuffered |-> nb, err |-> Nil, wrote |-> FALSE]

\* FlushPolicy.EncodeMultiBulk; ok is whether the Encoder succeeds
FlushPolicy_EncodeMultiBulk(nb, ok) ==
  IF ok THEN [nbuffered |-> nb + 1, err |-> Nil]
        ELSE [nbuffered |-> nb, err |-> EncodeErr]

\* the request the writer holds: not yet encoded, flushed past or handed on
NewRequest(isBroken) ==
  [broken |-> isBroken, encoded |-> FALSE, flushStep |-> FALSE,
   handed |-> FALSE, discarded |-> FALSE]

\* what the last call of Flush saw: len(bc.input), nbuffered, the time since
\* the last write, and whether it wrote
NotSeen == [ninput |-> 0, nbuffered |-> 0, since |-> 0, wrote |-> FALSE]

lw_frame == UNCHANGED <<bvars, svars, rvars, kvars, dvars, evars, fvars,
                        wtvars, rdvars, tp, et>>

\* BackendConn.PushBack by a caller: one more request in bc.input
lw_PushBack ==
  /\ lw_frame
  /\ ~fp.stopped
  /\ fp.ninput < InputCap
  /\ fp' = [fp EXCEPT !.ninput = @ + 1]

\* BackendConn.Close: close(bc.input)
lw_Close ==
  /\ lw_frame
  /\ ~fp.stopped
  /\ fp' = [fp EXCEPT !.stopped = TRUE]

\* time passes: up to MaxIntervalMs, or beyond it
lw_clock ==
  /\ lw_frame
  /\ fp.pc # "exit"
  /\ \E d \in {MaxIntervalMs, MaxIntervalMs + 1} :
       /\ d > fp.since
       /\ fp' = [fp EXCEPT !.since = d]

\* loopWriter lines 99 and 129: r, ok = <-bc.input
lw_receive ==
  /\ lw_frame
  /\ fp.pc = "recv"
  /\ \/ /\ fp.ninput > 0
        /\ \E isBroken \in BOOLEAN :
             fp' = [fp EXCEPT !.pc = "loop", !.ninput = @ - 1,
                              !.r = NewRequest(isBroken)]
     \/ /\ fp.ninput = 0 /\ fp.stopped
        /\ fp' = [fp EXCEPT !.pc = "exit"]

\* loopWriter lines 115-118: p.EncodeMultiBulk(r.Multi)
lw_EncodeMultiBulk ==
  /\ lw_frame
  /\ fp.pc = "loop"
  /\ ~fp.r.broken
  /\ \E ok \in BOOLEAN :
       \E e \in {FlushPolicy_EncodeMultiBulk(fp.nbuffered, ok)} :
         fp' = [fp EXCEPT !.nbuffered = e.nbuffered,
                          !.r.encoded = (e.err = Nil),
                          !.pc = IF e.err = Nil THEN "flush" ELSE "exit"]

\* what a call of p.Flush(len(bc.input) == 0) leaves behind
lw_flushed(f, next) ==
  [fp EXCEPT !.nbuffered = f.nbuffered,
             !.since = IF f.wrote /\ fp.nbuffered > 0 THEN 0 ELSE @,
             !.seen = [ninput |-> fp.ninput, nbuffered |-> fp.nbuffered,
                       since |-> fp.since, wrote |-> f.wrote],
             !.r.flushStep = (f.err = Nil),
             !.pc = IF f.err = Nil THEN next ELSE "exit"]

\* loopWriter lines 119-121: p.Flush(len(bc.input) == 0) after the encode
lw_Flush ==
  /\ lw_frame
  /\ fp.pc = "flush"
  /\ \E ok \in BOOLEAN :
       \E f \in {FlushPolicy_Flush(fp.nbuffered, fp.ninput = 0, fp.since,
                                   ok)} :
         fp' = lw_flushed(f, "send")

\* loopWriter line 122: tasks <- r
lw_handoff ==
  /\ lw_frame
  /\ fp.pc = "send"
  /\ fp.ntasks < TasksCap
  /\ fp' = [fp EXCEPT !.ntasks = @ + 1, !.r.handed = TRUE, !.pc = "recv"]

\* loopWriter lines 123-128: a broken request is flushed past and discarded
lw_discard ==
  /\ lw_frame
  /\ fp.pc = "loop"
  /\ fp.r.broken
  /\ \E ok \in BOOLEAN :
       \E f \in {FlushPolicy_Flush(fp.nbuffered, fp.ninput = 0, fp.since,
                                   ok)} :
         fp' = [lw_flushed(f, "recv") EXCEPT !.r.discarded = (f.err = Nil)]

\* the reader takes a request from tasks
lw_reader ==
  /\ lw_frame
  /\ fp.ntasks > 0
  /\ fp' = [fp EXCEPT !.ntasks = @ - 1]

InitFp ==
  fp = [pc |-> "recv", nbuffered |-> 0, ninput |-> 0, stopped |-> FALSE,
        since |-> 0, ntasks |-> 0, r |-> NewRequest(FALSE), seen |-> NotSeen]

(***************************************************************************)
(* topom.go, models/store.go: the coordinators of one product, each with   *)
(* its own client, and the lock node of the product in the store they      *)
(* share.  tp.lock is the Topom whose model the lock node holds (NoTopom:  *)
(* no node); tp.last is what the step returned to its caller.              *)
(***************************************************************************)
Topoms == 1..NumTopom
NoTopom == 0
ErrClosedTopom == "ErrClosedTopom"
ErrAcquire == "store: acquire lock failed"
ErrRelease == "store: release lock failed"
NoLast == [t |-> NoTopom, op |-> "none", err |-> Nil]

\* Client.Create(path, data) on the lock node: "node already exists" when
\* there is one; ok is whether the store can be reached
Client_Create(node, data, ok) ==
  IF ok /\ node = NoTopom THEN [node |-> data, err |-> Nil]
  ELSE [node |-> node, err |-> ErrAcquire]

\* Client.Delete(path) on the lock node
Client_Delete(node, ok) ==
  IF ok THEN [node |-> NoTopom, err |-> Nil]
  ELSE [node |-> node, err |-> ErrRelease]

\* Store.Acquire(topom)
Store_Acquire(node, t, ok) == Client_Create(node, t, ok)

\* Store.Release()
Store_Release(node, ok) == Client_Delete(node, ok)

\* Topom.IsOnline
IsOnline(t) == tp.of[t].online /\ ~tp.of[t].closed

\* Topom.IsClosed
IsClosed(t) == tp.of[t].closed

Topom_frame == UNCHANGED <<bvars, svars, rvars, kvars, dvars, evars, fvars,
                           wtvars, rdvars, fp, et>>

\* Topom.Start lines 601-612: ErrClosedTopom when closed, nil when online,
\* else Store.Acquire
Topom_Start(t) ==
  /\ Topom_frame
  /\ tp.of[t].pc = "idle"
  /\ IF tp.of[t].closed
     THEN tp' = [tp EXCEPT !.last = [t |-> t, op |-> "Start",
                                     err |-> ErrClosedTopom]]
     ELSE IF tp.of[t].online
     THEN tp' = [tp EXCEPT !.last = [t |-> t, op |-> "Start", err |-> Nil]]
     ELSE \E ok \in BOOLEAN :
            \E a \in {Store_Acquire(tp.lock, t, ok)} :
              IF a.err # Nil
              THEN tp' = [tp EXCEPT !.last = [t |-> t, op |-> "Start",
                                              err |-> ErrAcquire]]
              ELSE tp' = [tp EXCEPT !.lock = a.node,
                                    !.of[t].pc = "acquired",
                                    !.last = NoLast]

\* Topom.Start lines 613-617 and 666: online is set and Start returns nil
Topom_Start_online(t) ==
  /\ Topom_frame
  /\ tp.of[t].pc = "acquired"
  /\ tp' = [tp EXCEPT !.of[t].online = TRUE, !.of[t].pc = "idle",
                      !.last = [t |-> t, op |-> "Start", err |-> Nil]]

\* Topom.Close lines 574-580: nil when closed, else closed is set
Topom_Close(t) ==
  /\ Topom_frame
  /\ tp.of[t].pc = "idle"
  /\ IF tp.of[t].closed
     THEN tp' = [tp EXCEPT !.last = [t |-> t, op |-> "Close", err |-> Nil]]
     ELSE tp' = [tp EXCEPT !.of[t].closed = TRUE, !.of[t].pc = "closing",
                           !.last = NoLast]

\* Topom.Close releasing the lock whether the Topom is online or not
Topom_Close_release_always(t) ==
  /\ Topom_frame
  /\ tp.of[t].pc = "closing"
  /\ \E ok \in BOOLEAN :
       \E d \in {Store_Release(tp.lock, ok)} :
         tp' = [tp EXCEPT !.lock = d.node, !.of[t].pc = "idle",
                          !.last = [t |-> t, op |-> "Close",
                                    err |-> d.err]]

\* Topom.Close lines 590-598: Store.Release if the Topom is online
Topom_Close_release(t) ==
  /\ Topom_frame
  /\ tp.of[t].pc = "closing"
  /\ IF tp.of[t].online
     THEN \E ok \in BOOLEAN :
            \E d \in {Store_Release(tp.lock, ok)} :
              tp' = [tp EXCEPT !.lock = d.node, !.of[t].pc = "idle",
                               !.last = [t |-> t, op |-> "Close",
                                         err |-> d.err]]
     ELSE tp' = [tp EXCEPT !.of[t].pc = "idle",
                           !.last = [t |-> t, op |-> "Close", err |-> Nil]]

\* topom.New: neither online nor closed, and no lock node in the store
InitTp ==
  tp = [of |-> [t \in Topoms |->
                  [online |-> FALSE, closed |-> FALSE, pc |-> "idle"]],
        lock |-> NoTopom, last |-> NoLast]

(***************************************************************************)
(* etcdclient.go: one EtcdClient.  Every method holds the client's mutex   *)
(* from its first line to its return, so a call is one step; ok is whether *)
(* etcd answers the request without an error.  et.last is the call that    *)
(* the step made: [op, err, contacted].                                    *)
(***************************************************************************)
Refreshers == 1..NumRefresher
ErrClosedEtcdClient == "ErrClosedEtcdClient"
EtcdErr == "EtcdErr"
NoCall == [op |-> "none", err |-> Nil, contacted |-> FALSE]

\* the methods that talk to etcd and start nothing
EtcdMethods == {"Mkdir", "Create", "Update", "Delete", "Read", "List",
                "RefreshEphemeral"}

Etcd_frame == UNCHANGED <<bvars, svars, rvars, kvars, dvars, evars, fvars,
                          wtvars, rdvars, fp, tp>>

\* a method that goes to etcd without looking at closed: [err, contacted]
Etcd_request_unchecked(isClosed, ok) ==
  [err |-> IF ok THEN Nil ELSE EtcdErr, contacted |-> TRUE]

\* the first lines of every method: ErrClosedEtcdClient on a closed client,
\* else the request goes to etcd: [err, contacted]
Etcd_request(isClosed, ok) ==
  IF isClosed THEN [err |-> ErrClosedEtcdClient, contacted |-> FALSE]
  ELSE [err |-> IF ok THEN Nil ELSE EtcdErr, contacted |-> TRUE]

\* EtcdClient.Close lines 63-72
Etcd_Close ==
  /\ Etcd_frame
  /\ IF et.closed
     THEN et' = [et EXCEPT !.last = [NoCall EXCEPT !.op = "Close"]]
     ELSE et' = [et EXCEPT !.closed = TRUE, !.ncancel = @ + 1,
                           !.last = [NoCall EXCEPT !.op = "Close"]]

\* Mkdir, Create, Update, Delete, Read, List or RefreshEphemeral called
Etcd_Call(op, ok) ==
  /\ Etcd_frame
  /\ \E q \in {Etcd_request(et.closed, ok)} :
       et' = [et EXCEPT !.last = [op |-> op, err |-> q.err,
                                  contacted |-> q.contacted]]

\* EtcdClient.WatchInOrder lines 294-334; the watcher it starts ends with
\* the client's context
Etcd_WatchInOrder(ok) ==
  /\ Etcd_frame
  /\ \E q \in {Etcd_request(et.closed, ok)} :
       et' = [et EXCEPT !.last = [op |-> "WatchInOrder", err |-> q.err,
                                  contacted |-> q.contacted]]

\* EtcdClient.CreateEphemeral lines 224-240: the node is created and
\* runRefreshEphemeral starts refresher i with a signal channel of its own
Etcd_CreateEphemeral(i, ok) ==
  /\ Etcd_frame
  /\ et.ref[i] = "none"
  /\ \E q \in {Etcd_request(et.closed, ok)} :
       et' = [et EXCEPT !.last = [op |-> "CreateEphemeral", err |-> q.err,
                                  contacted |-> q.contacted],
                        !.ref[i] = IF q.err = Nil THEN "run" ELSE @,
                        !.signal[i] = IF q.err = Nil THEN "open" ELSE @]

\* runRefreshEphemeral lines 265-271: RefreshEphemeral, then return on an
\* error or sleep
Refresher_refresh(i, ok) ==
  /\ Etcd_frame
  /\ et.ref[i] = "run"
  /\ \E q \in {Etcd_request(et.closed, ok)} :
       et' = [et EXCEPT !.last = [op |-> "RefreshEphemeral", err |-> q.err,
                                  contacted |-> q.contacted],
                        !.ref[i] = IF q.err = Nil THEN "run" ELSE "return",
                        !.why[i] = q.err]

\* runRefreshEphemeral line 264: the deferred close(signal)
Refresher_exit(i) ==
  /\ Etcd_frame
  /\ et.ref[i] = "return"
  /\ et' = [et EXCEPT !.ref[i] = "stopped", !.signal[i] = "closed",
                      !.last = NoCall]

\* etcdclient.New
InitEt ==
  et = [closed |-> FALSE, ncancel |-> 0, last |-> NoCall,
        ref |-> [i \in Refreshers |-> "none"],
        signal |-> [i \in Refreshers |-> "none"],
        why |-> [i \in Refreshers |-> Nil]]

InitO == InitFp /\ InitTp /\ InitEt

InitX == InitK /\ InitD /\ InitE /\ InitF /\ InitW /\ InitRd /\ InitO

InitBackend == InitB /\ InitS /\ InitR /\ InitX

NextBackend ==
  \/ loopWriter_first
  \/ loopWriter_dial
  \/ loopWriter_encode
  \/ loopWriter_flush
  \/ loopWriter_send
  \/ loopWriter_discard
  \/ loopWriter_recv
  \/ loopWriter_fail
  \/ loopWriter_drain
  \/ Run
  \/ \E k \in Rounds : loopReader_reply(k)
  \/ \E k \in Rounds : loopReader_error(k)
  \/ \E k \in Rounds : loopReader_drain(k)
  \/ \E k \in Rounds : loopReader_exit(k)
  \/ \E r \in Reqs : CallPushBack(r)
  \/ CallClose
  \/ \E g \in Groups : BreakElsewhere(g)

SpecBackend == InitBackend /\ [][NextBackend]_vars

(***************************************************************************)
(* One BackendConn whose goroutines are scheduled fairly, and whose Close  *)
(* may be called more than once                                            *)
(***************************************************************************)
InitRun == InitB /\ InitS /\ InitR /\ InitX

\* the goroutine of Run: loopWriter and the rounds around it
WriterStep ==
  \/ loopWriter_first
  \/ loopWriter_dial
  \/ loopWriter_encode
  \/ loopWriter_flush
  \/ loopWriter_send
  \/ loopWriter_discard
  \/ loopWriter_recv
  \/ loopWriter_fail
  \/ loopWriter_drain
  \/ Run

\* the goroutine of round k's loopReader
ReaderStep(k) ==
  \/ loopReader_reply(k)
  \/ loopReader_error(k)
  \/ loopReader_drain(k)
  \/ loopReader_exit(k)

NextRun ==
  \/ WriterStep
  \/ \E k \in Rounds : ReaderStep(k)
  \/ \E r \in Reqs : CallPushBack(r)
  \/ BackendConn_Close
  \/ \E g \in Groups : BreakElsewhere(g)

\* The Go scheduler runs every goroutine that can take a step; the backend
\* answers or the connection's one-minute read and write timeouts fire
\* (newBackendReader), so neither goroutine waits forever on the socket.
\* Nothing is assumed of the callers of PushBack and Close.
SpecRun ==
  /\ InitRun
  /\ [][NextRun]_vars
  /\ WF_vars(WriterStep)
  /\ \A k \in Rounds : WF_vars(ReaderStep(k))

(***************************************************************************)
(* One BackendConn with a KeepAlive call beside its writer, its readers    *)
(* and the goroutines that push onto it                                    *)
(***************************************************************************)
InitKeepAlive == InitB /\ InitS /\ InitR /\ InitX

NextKeepAlive ==
  \/ loopWriter_first
  \/ loopWriter_dial
  \/ loopWriter_encode
  \/ loopWriter_flush
  \/ loopWriter_send
  \/ loopWriter_discard
  \/ loopWriter_recv
  \/ loopWriter_fail
  \/ loopWriter_drain
  \/ Run
  \/ \E k \in Rounds : loopReader_reply(k)
  \/ \E k \in Rounds : loopReader_error(k)
  \/ \E k \in Rounds : loopReader_drain(k)
  \/ \E k \in Rounds : loopReader_exit(k)
  \/ \E r \in Reqs : CallPushBack(r)
  \/ CallClose_underMu
  \/ \E g \in Groups : BreakElsewhere(g)
  \/ KeepAlive_check
  \/ KeepAlive_push

SpecKeepAlive == InitKeepAlive /\ [][NextKeepAlive]_vars

InitSession == InitB /\ InitS /\ InitR /\ InitX

NextSession ==
  \/ \E c \in Cmds, keys \in 1..MaxKeys, na \in BOOLEAN :
       Session_decode(c, keys, na)
  \/ Session_dispatch
  \/ \E c \in Cmds : Session_complete(c)
  \/ Session_pop
  \/ Session_write

SpecSession == InitSession /\ [][NextSession]_vars

InitRouter == InitB /\ InitS /\ InitR /\ InitX

\* the control plane alone: the administrative calls and the backends that
\* answer the PINGs of KeepAlive
NextRouter ==
  \/ \E idx \in (0 - 1)..MaxSlotNum, addr \in {NoAddr} \cup Addrs,
        from \in {NoAddr} \cup Addrs, locked \in BOOLEAN :
       FillSlot(idx, addr, from, locked)
  \/ blockAndWait_return
  \/ fillSlot
  \/ Close
  \/ resetSlot
  \/ RouterKeepAlive
  \/ \E c \in Conns, ok \in BOOLEAN : Backend_serve(c, ok)

SpecRouter == InitRouter /\ [][NextRouter]_vars

InitDispatch == InitB /\ InitS /\ InitR /\ InitX

\* the control plane together with the data path.  The data path tells only
\* whether a slot has a backend and whether it has a migration source, so the
\* migration source is the backend's address or none.
NextDispatch ==
  \/ \E idx \in (0 - 1)..MaxSlotNum, addr \in {NoAddr} \cup Addrs,
        locked \in BOOLEAN :
       \E from \in {NoAddr, addr} : FillSlot(idx, addr, from, locked)
  \/ blockAndWait_return
  \/ fillSlot
  \/ Close
  \/ resetSlot
  \/ RouterKeepAlive
  \/ \E r \in DispatchReqs, s \in Slots, key \in BOOLEAN : Dispatch(r, s, key)
  \/ \E r \in DispatchReqs : forward_migrate(r)
  \/ \E r \in DispatchReqs : forward_migrated(r)
  \/ \E r \in DispatchReqs : forward_push(r)
  \/ \E c \in Conns, ok \in BOOLEAN : Backend_serve(c, ok)

SpecDispatch == InitDispatch /\ [][NextDispatch]_vars

(***************************************************************************)
(* One Decoder reading an input that ends with an error of the reader      *)
(***************************************************************************)
InitDecoder ==
  /\ InitB /\ InitS /\ InitR /\ InitK /\ InitE /\ InitF /\ InitW /\ InitRd /\ InitO
  /\ dstream \in StreamsOf(MaxChunks)
  /\ dpos = 0
  /\ dErr = Nil
  /\ dncall = 0
  /\ dlast = [op |-> "none", err |-> Nil, val |-> <<>>]
  /\ dfailed = FALSE

NextDecoder ==
  \/ Decode
  \/ DecodeMultiBulk

SpecDecoder == InitDecoder /\ [][NextDecoder]_vars

(***************************************************************************)
(* One Encoder writing to a socket that may fail                           *)
(***************************************************************************)
InitEncoder ==
  /\ InitB /\ InitS /\ InitR /\ InitK /\ InitD /\ InitF /\ InitW /\ InitRd /\ InitO
  /\ ew = [buf |-> <<>>, out |-> <<>>, err |-> Nil]
  /\ ecap \in {Unlimited} \cup 0..MaxAccepted
  /\ eErr = Nil
  /\ encall = 0
  /\ elast = [op |-> "none", err |-> Nil]
  /\ efailed = FALSE

NextEncoder ==
  \/ \E r \in Resps, flush \in BOOLEAN : Encode(r, flush)
  \/ \E multi \in Multis, flush \in BOOLEAN :
       EncodeMultiBulk(multi, FALSE, flush)
  \/ \E flush \in BOOLEAN : EncodeMultiBulk(<<>>, TRUE, flush)
  \/ EncoderFlush

SpecEncoder == InitEncoder /\ [][NextEncoder]_vars

(***************************************************************************)
(* One buffered Writer over an io.Writer that fails, or writes short, at   *)
(* calls chosen beforehand                                                 *)
(***************************************************************************)
InitWriter ==
  /\ InitB /\ InitS /\ InitR /\ InitK /\ InitD /\ InitE /\ InitF /\ InitRd /\ InitO
  /\ wtr \in [buf : {<<>>}, err : {Nil}, out : {<<>>}, nwr : {0},
              plan : PlansOf(MaxPlan), failed : {{}}]
  /\ wlast = [op |-> "none", nn |-> 0, err |-> Nil, pre |-> Nil]
  /\ wncall = 0

NextWriter ==
  \/ \E p \in WriteArgs : Write(p)
  \/ \E s \in WriteArgs : WriteString(s)
  \/ WriteByte("z")
  \/ WriterFlush

SpecWriter == InitWriter /\ [][NextWriter]_vars


(***************************************************************************)
(* One value through Encode, the connection, and Decode                    *)
(***************************************************************************)
\* well-formed values that hold no other value: simple strings, errors,
\* integers, and bulk strings (null, empty, and with CR LF inside)
LeafResps ==
  {NewResp(TypeString, v, <<>>, FALSE) : v \in {<<>>, <<"a">>, <<"O", "K">>}}
  \cup {NewResp(TypeError, <<"E">>, <<>>, FALSE)}
  \cup {NewResp(TypeInt, v, <<>>, FALSE)
        : v \in {<<"0">>, <<"-", "1">>, <<"1", "0">>}}
  \cup {NewBulkBytes(v) : v \in {<<>>, <<"a">>, <<CR, LF>>, <<"$", "1">>}}
  \cup {NewResp(TypeBulkBytes, <<>>, <<>>, TRUE)}

\* arrays of them: null, empty, of one element and of two
FlatArrays ==
  {NewResp(TypeArray, <<>>, <<>>, TRUE), NewResp(TypeArray, <<>>, <<>>, FALSE)}
  \cup {NewResp(TypeArray, <<>>, <<l>>, FALSE) : l \in LeafResps}
  \cup {NewResp(TypeArray, <<>>, <<NewBulkBytes(<<"a">>), l>>, FALSE)
        : l \in LeafResps}

\* arrays of arrays
NestedArrays ==
  {NewResp(TypeArray, <<>>, <<a>>, FALSE) : a \in FlatArrays}
  \cup {NewResp(TypeArray, <<>>,
                <<a, NewResp(TypeInt, <<"1">>, <<>>, FALSE)>>, FALSE)
        : a \in FlatArrays}

WellFormedResps == LeafResps \cup FlatArrays \cup NestedArrays

InitRoundTrip ==
  /\ InitB /\ InitS /\ InitR /\ InitK /\ InitD /\ InitE /\ InitW /\ InitRd /\ InitO
  /\ farg \in {<<r>> : r \in WellFormedResps}
  /\ fres = <<>>

\* the value is encoded and flushed
RoundTrip_Encode ==
  /\ encall = 0
  /\ Encode(farg[1], TRUE)

\* the connection delivers the bytes written, alone or with the beginning
\* of what follows them
RoundTrip_Deliver ==
  /\ encall = 1
  /\ dstream = <<>>
  /\ \E more \in {<<>>, <<"+">>, <<CR, LF>>} : dstream' = ew.out \o more
  /\ UNCHANGED <<bvars, svars, rvars, kvars, evars, fvars, wtvars, rdvars,
                 ovars>>
  /\ UNCHANGED <<dpos, dErr, dncall, dlast, dfailed>>

\* the bytes are decoded
RoundTrip_Decode ==
  /\ dstream # <<>>
  /\ dncall = 0
  /\ Decode

NextRoundTrip ==
  \/ RoundTrip_Encode
  \/ RoundTrip_Deliver
  \/ RoundTrip_Decode

SpecRoundTrip == InitRoundTrip /\ [][NextRoundTrip]_vars

(***************************************************************************)
(* One Decode of a bulk string or an array whose length is at a boundary   *)
(***************************************************************************)
\* lengths on both sides of every test decodeBulkBytes and decodeArray make
LengthsOf(max) == {-2, -1, 0, 1, max - 1, max, max + 1}

\* what follows the length line
LengthTails ==
  { <<>>, <<CR, LF>>, <<"a", CR, LF>>, <<"a", LF>>, <<"a", "b", CR>>,
    <<LF, LF>>, <<CR, LF, "+">>, <<"a", CR, LF, "b">>, <<"a">> }

\* the bytes of input a: the type byte, the length, the end of the line
\* (CR LF, or LF alone), and the tail
LengthStream(a) ==
  <<a.type>> \o itoa(a.n) \o (IF a.lfOnly THEN <<LF>> ELSE <<CR, LF>>)
  \o a.tail

\* the number of bytes of the length line of input a
LengthLine(a) == Len(LengthStream(a)) - Len(a.tail)

LengthInputs ==
  [type : {TypeBulkBytes}, n : LengthsOf(MaxBulkBytesLen),
   lfOnly : BOOLEAN, tail : LengthTails]
  \cup [type : {TypeArray}, n : LengthsOf(MaxArrayLen),
        lfOnly : BOOLEAN, tail : LengthTails]

InitLengths ==
  /\ InitB /\ InitS /\ InitR /\ InitK /\ InitE /\ InitW /\ InitRd /\ InitO
  /\ farg \in {<<a>> : a \in LengthInputs}
  /\ fres = <<>>
  /\ dstream = LengthStream(farg[1])
  /\ dpos = 0
  /\ dErr = Nil
  /\ dncall = 0
  /\ dlast = [op |-> "none", err |-> Nil, val |-> <<>>]
  /\ dfailed = FALSE

NextLengths == Decode

SpecLengths == InitLengths /\ [][NextLengths]_vars

(***************************************************************************)
(* One DecodeMultiBulk of a '*' frame or of an inline command              *)
(***************************************************************************)
\* the elements a frame is made of, each with its bytes on the wire
MultiElems ==
  { [r |-> NewBulkBytes(<<"a">>), b |-> <<"$", "1", CR, LF, "a", CR, LF>>],
    [r |-> NewBulkBytes(<<>>), b |-> <<"$", "0", CR, LF, CR, LF>>],
    [r |-> NewResp(TypeBulkBytes, <<>>, <<>>, TRUE),
     b |-> <<"$", "-", "1", CR, LF>>],
    [r |-> NewResp(TypeString, <<"a">>, <<>>, FALSE),
     b |-> <<"+", "a", CR, LF>>],
    [r |-> NewResp(TypeInt, <<"1">>, <<>>, FALSE),
     b |-> <<":", "1", CR, LF>>],
    [r |-> NewResp(TypeArray, <<>>, <<>>, FALSE),
     b |-> <<"*", "0", CR, LF>>] }

\* the sequences of length 0..n of elements of S
RECURSIVE SeqsUpTo(_, _)
SeqsUpTo(S, n) ==
  IF n = 0 THEN {<<>>}
  ELSE SeqsUpTo(S, n - 1)
       \cup {Append(q, x) : q \in SeqsUpTo(S, n - 1), x \in S}

\* the bytes of the elements es, one after the other
RECURSIVE WireBytes(_)
WireBytes(es) ==
  IF es = <<>> THEN <<>> ELSE Head(es).b \o WireBytes(Tail(es))

\* a frame announces n elements and holds elems; an inline command is a
\* line without its end
MultiInputs ==
  [kind : {"frame"}, n : {-1, 0, 1, 2}, elems : SeqsUpTo(MultiElems, 2),
   line : {<<>>}]
  \cup [kind : {"inline"}, n : {0}, elems : {<<>>},
        line : SeqsUpTo({"a", SP, "$"}, MaxLine - 1)]

MultiStream(a) ==
  IF a.kind = "frame"
  THEN <<TypeArray>> \o itoa(a.n) \o <<CR, LF>> \o WireBytes(a.elems)
  ELSE a.line \o <<CR, LF>>

InitMultiBulk ==
  /\ InitB /\ InitS /\ InitR /\ InitK /\ InitE /\ InitW /\ InitRd /\ InitO
  /\ farg \in {<<a>> : a \in MultiInputs}
  /\ fres = <<>>
  /\ dstream = MultiStream(farg[1])
  /\ dpos = 0
  /\ dErr = Nil
  /\ dncall = 0
  /\ dlast = [op |-> "none", err |-> Nil, val |-> <<>>]
  /\ dfailed = FALSE

NextMultiBulk == DecodeMultiBulk

SpecMultiBulk == InitMultiBulk /\ [][NextMultiBulk]_vars

(***************************************************************************)
(* One DecodeMultiBulk of an inline command that ends in CR LF or in LF    *)
(***************************************************************************)
InlineInputs ==
  [line : SeqsUpTo({"a", SP, "$"}, MaxLine - 1), lfOnly : BOOLEAN]

InlineStream(a) == a.line \o (IF a.lfOnly THEN <<LF>> ELSE <<CR, LF>>)

InitInline ==
  /\ InitB /\ InitS /\ InitR /\ InitK /\ InitE /\ InitW /\ InitRd /\ InitO
  /\ farg \in {<<a>> : a \in InlineInputs}
  /\ fres = <<>>
  /\ dstream = InlineStream(farg[1])
  /\ dpos = 0
  /\ dErr = Nil
  /\ dncall = 0
  /\ dlast = [op |-> "none", err |-> Nil, val |-> <<>>]
  /\ dfailed = FALSE

NextInline == DecodeMultiBulk

SpecInline == InitInline /\ [][NextInline]_vars

(***************************************************************************)
(* hashSlot on short keys with and without braces                          *)
(***************************************************************************)
HashKeys == SeqsUpTo({"a", "b", "{", "}"}, MaxLine - 1)

InitHashSlot ==
  /\ InitB /\ InitS /\ InitR /\ InitK /\ InitD /\ InitE /\ InitW /\ InitRd /\ InitO
  /\ farg \in {<<k>> : k \in HashKeys}
  /\ fres = <<>>

NextHashSlot ==
  \/ HashKey
  \/ HashTagged

SpecHashSlot == InitHashSlot /\ [][NextHashSlot]_vars

(***************************************************************************)
(* The opcode tables, one opcode at a time                                 *)
(***************************************************************************)
\* every opcode of the two tables and some that are in neither
Opcodes == blacklist \cup redisfast \cup {"FOO", "HELLO", "QUIT"}

InitOpcodes ==
  /\ InitB /\ InitS /\ InitR /\ InitK /\ InitD /\ InitE /\ InitW /\ InitRd /\ InitO
  /\ farg \in {<<op>> : op \in Opcodes}
  /\ fres = <<>>

NextOpcodes == Classify

SpecOpcodes == InitOpcodes /\ [][NextOpcodes]_vars

(***************************************************************************)
(* One Reader over a stream of two lines, delivered as a plan says         *)
(***************************************************************************)
\* the values of maxlen: below, at and above the size of the buffer
MaxLens == 1..(2 * ReaderSize)

InitReader ==
  /\ InitB /\ InitS /\ InitR /\ InitK /\ InitD /\ InitE /\ InitF /\ InitW
  /\ InitO
  /\ rdr \in [buf : {[i \in 1..ReaderSize |-> ""]}, rpos : {0}, wpos : {0},
              err : {Nil}, stream : ReadStreams, off : {0},
              plan : ReadPlans(MaxPlan), nrd : {0}]
  /\ rlast = [op |-> "none", b |-> <<>>, err |-> Nil, n |-> 0, pos |-> 0,
              maxlen |-> 0, was |-> Nil]
  /\ rncall = 0

\* the lengths of the p handed to Read: empty, shorter than the buffer, as
\* long, and longer
ReadLens == {0, 1, ReaderSize, ReaderSize + 1}

NextReader ==
  \/ Reader_ReadByte
  \/ Reader_PeekByte
  \/ \E plen \in ReadLens : Reader_CallRead(plen)
  \/ Reader_CallReadSlice(LF)
  \/ Reader_CallReadBytes(LF)
  \/ \E maxlen \in MaxLens : Reader_CallReadSlice2(LF, maxlen)

SpecReader == InitReader /\ [][NextReader]_vars

(***************************************************************************)
(* The flush policy of the backend writer: one writer, its callers, its    *)
(* reader and the clock                                                    *)
(***************************************************************************)
InitFlush == InitB /\ InitS /\ InitR /\ InitX

NextFlush ==
  \/ lw_PushBack
  \/ lw_Close
  \/ lw_clock
  \/ lw_receive
  \/ lw_EncodeMultiBulk
  \/ lw_Flush
  \/ lw_handoff
  \/ lw_discard
  \/ lw_reader

SpecFlush == InitFlush /\ [][NextFlush]_vars

(***************************************************************************)
(* The coordinators of one product starting and closing                    *)
(***************************************************************************)
InitTopom == InitB /\ InitS /\ InitR /\ InitX

NextTopom ==
  \/ \E t \in Topoms : Topom_Start(t)
  \/ \E t \in Topoms : Topom_Start_online(t)
  \/ \E t \in Topoms : Topom_Close(t)
  \/ \E t \in Topoms : Topom_Close_release(t)

SpecTopom == InitTopom /\ [][NextTopom]_vars

(***************************************************************************)
(* One EtcdClient, its callers and its refreshers.  A refresher is a       *)
(* goroutine of its own that sleeps for half the timeout between two       *)
(* calls, and a call returns when etcd answers or its context times out:   *)
(* each refresher takes its next step eventually.                          *)
(***************************************************************************)
InitEtcd == InitB /\ InitS /\ InitR /\ InitX

RefresherStep(i) ==
  \/ \E ok \in BOOLEAN : Refresher_refresh(i, ok)
  \/ Refresher_exit(i)

NextEtcd ==
  \/ Etcd_Close
  \/ \E op \in EtcdMethods, ok \in BOOLEAN : Etcd_Call(op, ok)
  \/ \E ok \in BOOLEAN : Etcd_WatchInOrder(ok)
  \/ \E i \in Refreshers, ok \in BOOLEAN : Etcd_CreateEphemeral(i, ok)
  \/ \E i \in Refreshers, ok \in BOOLEAN : Refresher_refresh(i, ok)
  \/ \E i \in Refreshers : Refresher_exit(i)

SpecEtcd ==
  /\ InitEtcd
  /\ [][NextEtcd]_vars
  /\ \A i \in Refreshers : WF_vars(RefresherStep(i))

(***************************************************************************)
(* itoa on the integers around the ends of the table, around zero and at   *)
(* both ends of int64                                                      *)
(***************************************************************************)
ItoaInputs ==
  (Int64Min..(Int64Min + ItoaSpan))
  \cup ((0 - ItoaOffset - ItoaSpan)..(0 - ItoaOffset + ItoaSpan))
  \cup ((0 - ItoaSpan)..ItoaSpan)
  \cup ((ItoaLen - ItoaOffset - ItoaSpan)..(ItoaLen - ItoaOffset + ItoaSpan))
  \cup ((Int64Max - ItoaOffset - ItoaSpan)..Int64Max)

InitItoa ==
  /\ InitB /\ InitS /\ InitR /\ InitK /\ InitD /\ InitE /\ InitW /\ InitRd /\ InitO
  /\ farg \in {<<i>> : i \in ItoaInputs}
  /\ fres = <<>>

NextItoa == Itoa_call

SpecItoa == InitItoa /\ [][NextItoa]_vars

(***************************************************************************)
(* Properties of the backend connection                                    *)
(***************************************************************************)
\* position of r in the sequence q (0 when absent)
Pos(q, r) ==
  IF \E i \in 1..Len(q) : q[i] = r
  THEN CHOOSE i \in 1..Len(q) : q[i] = r
  ELSE 0

\* how many times r occurs in q
Occ(q, r) == Cardinality({i \in 1..Len(q) : q[i] = r})

IsPrefix(p, q) ==
  /\ Len(p) <= Len(q)
  /\ \A i \in 1..Len(p) : p[i] = q[i]

WasPushed(r) == Pos(pushed, r) # 0

\* the writer holds a request it has received and not yet completed or
\* handed to the reader
WriterHolds(r) == wr = r /\ wpc \in {"dial", "loop", "flush", "send"}

\* where a pushed request that is not completed can be
Pending(r) ==
  Occ(input[BC], r)
  + (IF WriterHolds(r) THEN 1 ELSE 0)
  + Cardinality({k \in Rounds : Occ(tasks[k], r) # 0})

RECURSIVE SumN(_)
SumN(S) ==
  IF S = {} THEN 0
  ELSE LET r == CHOOSE x \in S : TRUE IN req[r].n + SumN(S \ {r})

BackendQuiet ==
  /\ wpc = "exit"
  /\ \A k \in Rounds : rpc[k] \in {"none", "done"}

\* C1: every request handed to PushBack is completed exactly once on every
\* path: a pushed request is either still queued in exactly one place (input,
\* the writer's hands, one tasks channel) or setResponse has run exactly once
\* for it; nothing is left over when Run and the readers have exited; each
\* batch counter equals its PushBacks minus its completions and is never
\* negative; a completed request has exactly one of Resp and Err non-nil.
C1_CompletedExactlyOnce ==
  /\ \A r \in Reqs :
       /\ req[r].n <= 1
       /\ req[r].n + Pending(r) = (IF WasPushed(r) THEN 1 ELSE 0)
       /\ req[r].n = 1 => ((req[r].resp # 0) # (req[r].err # Nil))
       /\ (BackendQuiet /\ WasPushed(r)) => req[r].n = 1
  /\ \A g \in Groups :
       /\ batch[g] >= 0
       /\ batch[g] = Cardinality({r \in Reqs : GroupOf(r) = g /\ WasPushed(r)})
                     - SumN({r \in Reqs : GroupOf(r) = g})

\* C1 witness: Run has exited after a normal reply, a read failure and a
\* discard
C1_Witness ==
  /\ BackendQuiet
  /\ \A r \in Reqs : req[r].n = 1
  /\ \E r \in Reqs : req[r].resp # 0
  /\ \E r \in Reqs : req[r].err = ReadErr
  /\ \E r \in Reqs : req[r].err = ErrDiscardedRequest

\* the requests round k's reader has taken from tasks, in order
RECURSIVE TakenBy(_, _)
TakenBy(q, k) ==
  IF q = <<>> THEN <<>>
  ELSE IF by[Head(q)] = k THEN <<Head(q)>> \o TakenBy(Tail(q), k)
       ELSE TakenBy(Tail(q), k)

\* C2: within one connection round the reader takes requests from tasks in
\* exactly the order the writer encoded them, and the i-th response decoded
\* (the server's answer to the i-th command on the wire) is assigned to the
\* i-th request encoded, never to a request that was not encoded on that
\* connection.
C2_ResponseBinding ==
  /\ \A k \in Rounds : IsPrefix(TakenBy(completed, k) \o tasks[k], wire[k])
  /\ \A r \in Reqs :
       req[r].resp # 0 =>
         /\ req[r].resp = r
         /\ by[r] \in Rounds
         /\ Occ(wire[by[r]], r) = 1

\* C2 witness: one round's reader has decoded two responses
C2_Witness == \E k \in Rounds : ndec[k] >= 2

\* completion order agrees with push order on the requests that satisfy Same
InPushOrder(Same(_, _)) ==
  \A i, j \in 1..Len(completed) :
    (i < j /\ Same(completed[i], completed[j]))
      => Pos(pushed, completed[i]) < Pos(pushed, completed[j])

AnyTwo(a, b) == TRUE
SameCompleter(a, b) == by[a] = by[b]

\* C3 as claimed: of two requests pushed onto the same BackendConn the one
\* pushed first is completed first.
C3_Claimed_CompletionInPushOrder == InPushOrder(AnyTwo)

\* C3 as amended: of two requests completed by the same goroutine (one
\* round's reader, or the writer) the one pushed first is completed first.
C3_CompletionInPushOrderPerCompleter == InPushOrder(SameCompleter)

\* C3 witness: the writer completed a later request while two earlier ones
\* were awaiting their replies, which one reader then completed in order
C3_Witness ==
  /\ Len(completed) = 3
  /\ by[completed[1]] = Writer
  /\ by[completed[2]] = by[completed[3]]
  /\ by[completed[2]] \in Rounds
  /\ Pos(pushed, completed[2]) < Pos(pushed, completed[1])

(***************************************************************************)
(* Properties of the session                                               *)
(***************************************************************************)
\* C4: on one client session replies are written in exactly the order the
\* commands were decoded, whatever order the backends complete them in: the
\* writer holds at most the oldest unwritten command, which it writes only
\* once that command's batch counter is zero.
C4_RepliesInDecodeOrder ==
  /\ IsPrefix(swritten, sdecoded)
  /\ swritten \o (IF swcur = 0 THEN <<>> ELSE <<swcur>>) \o spending = sdecoded

\* C4 witness: a later command was completed by its backends while an earlier
\* one was still outstanding, and the earlier one's reply was written first
C4_Witness ==
  /\ Len(swritten) >= 2
  /\ \E c \in Cmds : sbatch[c] > 0

(***************************************************************************)
(* Properties of the slots and the router                                  *)
(***************************************************************************)
\* a control call is inside blockAndWait on slot s
InBlockAndWait(s) == ctl.pc = "wait" /\ ctl.idx = s

\* the control call's blockAndWait on slot s has returned, the slot is not
\* yet released
BlockAndWaitReturned(s) == ctl.pc = "run" /\ ctl.idx = s

\* a request forwarded through slot s is in flight: counted in by forward
\* and not yet returned with an error or completed by the backend
InFlight(r, s) ==
  /\ fslot[r] = s
  /\ \/ fpc[r] \in {"forward", "migrating", "push"}
     \/ fpc[r] = "done" /\ dret[r] = Nil /\ req[r].n = 0

RefsTo(c) ==
  Cardinality({s \in Slots : slots[s].bc = c})
  + Cardinality({s \in Slots : slots[s].mbc = c})

\* C6: after any sequence of FillSlot and Close calls the reference count of
\* every pool entry equals the number of slot fields that reference it, and
\* every slot field that names an address holds that address's pool entry.
C6_RefcntCountsSlotFields ==
  /\ \A a \in Addrs :
       pool[a] # NoConn => refcnt[pool[a]] = RefsTo(pool[a])
  /\ \A s \in Slots :
       /\ slots[s].bc = (IF slots[s].addr = NoAddr THEN NoConn
                         ELSE pool[slots[s].addr])
       /\ slots[s].mbc = (IF slots[s].from = NoAddr THEN NoConn
                          ELSE pool[slots[s].from])

\* C6 witness: a slot was re-filled with the address it had, as backend and
\* as migration source, so that a second connection for the address is
\* referenced twice by one slot
C6_Witness ==
  \E s \in Slots, c \in Conns :
    /\ slots[s].bc = c
    /\ slots[s].mbc = c
    /\ refcnt[c] = 2
    /\ \E d \in Conns : d # c /\ d <= nconn /\ caddr[d] = caddr[c]

\* C7: a connection in the pool has refcnt >= 1 and an open BackendConn; a
\* connection the router created is closed exactly when its refcnt has
\* dropped to 0, once, and is then no longer in the pool; neither Close nor
\* IncrRefcnt has panicked.
C7_PoolEntriesReferencedAndOpen ==
  /\ \A a \in Addrs :
       pool[a] # NoConn =>
         /\ refcnt[pool[a]] >= 1
         /\ ~stopped[pool[a]]
         /\ caddr[pool[a]] = a
  /\ \A c \in Conns :
       c <= nconn =>
         /\ stopped[c] <=> (refcnt[c] = 0)
         /\ nclose[c] = (IF refcnt[c] = 0 THEN 1 ELSE 0)
         /\ refcnt[c] = 0 => \A a \in Addrs : pool[a] # c
  /\ ~panicked

\* C7 witness: a connection was closed and removed, and its address has a
\* new connection in the pool
C7_Witness ==
  \E c \in Conns :
    /\ c <= nconn
    /\ stopped[c]
    /\ nclose[c] = 1
    /\ pool[caddr[c]] # NoConn

\* the slots and the pool
Membership == <<slots, pool, nconn, caddr, refcnt, nclose, stopped>>

\* C8 as claimed: on a closed router FillSlot, KeepAlive and Dispatch return
\* ErrClosedRouter.
C8_Claimed_ClosedRouterRefusesAll ==
  /\ (closed /\ ret.op \in {"FillSlot", "KeepAlive"}) => ret.err = ErrClosedRouter
  /\ \A r \in DispatchReqs :
       (fclosed[r] /\ fpc[r] = "done") => dret[r] = ErrClosedRouter

\* C8 as amended: once Close has returned, FillSlot and KeepAlive return
\* ErrClosedRouter, and no operation, Dispatch included, changes a slot or
\* the pool; KeepAlive pushes no PING.
C8_ClosedRouterRefusesControl ==
  [][closed =>
       /\ UNCHANGED Membership
       /\ closed'
       /\ ret'.op \in {"FillSlot", "KeepAlive"} =>
            (ret'.err = ErrClosedRouter /\ UNCHANGED input)]_vars

\* C8 witness: on a closed router a FillSlot has returned, and a Dispatch
\* that found the router closed has returned
C8_Witness ==
  /\ closed
  /\ ret.op = "FillSlot"
  /\ \E r \in DispatchReqs : fclosed[r] /\ fpc[r] = "done"

InvalidSlotId(idx) == idx < 0 \/ idx >= MaxSlotNum

\* C9: FillSlot with an index outside 0..MaxSlotNum-1 on an open router
\* returns ErrInvalidSlotId and leaves the slots, the reference counts and
\* the pool as they were; on a closed router FillSlot returns ErrClosedRouter
\* for every index.
C9_FillSlotRejects ==
  [][ret'.op = "FillSlot" =>
       /\ closed => (ret'.err = ErrClosedRouter /\ UNCHANGED Membership)
       /\ (~closed /\ InvalidSlotId(ret'.idx)) =>
            (ret'.err = ErrInvalidSlotId /\ UNCHANGED Membership)]_vars

\* C9 witness: a slot is filled and FillSlot has just refused an invalid
\* index on the open router
C9_Witness ==
  /\ ~closed
  /\ ret.op = "FillSlot"
  /\ ret.err = ErrInvalidSlotId
  /\ \E s \in Slots : slots[s].bc # NoConn

\* C10: when FillSlot(idx, addr, from, locked) returns nil, GetSlots reports
\* for slot idx the address, the migration source and the lock it was called
\* with, and reports every other slot as before.
C10_GetSlotsAfterFillSlot ==
  [][(ret'.op = "FillSlot" /\ ret'.err = Nil) =>
       /\ GetSlots'[ret'.idx] = [id |-> ret'.idx, backend_addr |-> ret'.addr,
                                 migrate_from |-> ret'.from,
                                 locked |-> ret'.locked]
       /\ \A s \in Slots \ {ret'.idx} : GetSlots'[s] = GetSlots[s]]_vars

\* C10 witness: a slot an earlier FillSlot left locked was filled again and
\* unlocked, with a backend and a different migration source
C10_Witness ==
  /\ ret.op = "FillSlot"
  /\ ret.err = Nil
  /\ ret.held
  /\ ~ret.locked
  /\ ret.addr # NoAddr
  /\ ret.from # NoAddr
  /\ ret.from # ret.addr

\* this step puts r onto the input of a backend
PushedNow(r) == \E c \in Conns : Occ(input'[c], r) > Occ(input[c], r)

\* this step puts r onto the pending list of a slot
QueuedNow(r) ==
  \E s \in Slots : Occ(slots'[s].pending, r) > Occ(slots[s].pending, r)

\* C11: a forward through a slot with a migration source, of a request with
\* a key, first pushes SLOTSMGRTTAGONE onto the migration source and waits
\* for it; the request goes to the backend only once the migration request
\* has completed without error; if it completed with an error the request
\* gets that error, forward returns it, and the request is never pushed.
C11_MigrateBeforeForward ==
  [][\A r \in DispatchReqs :
       /\ (fpc[r] = "forward" /\ MustMigrate(r) /\ fpc'[r] # "forward") =>
            /\ fpc'[r] = "migrating"
            /\ PushedNow(MigOf(r))
            /\ Occ(input'[slots[fslot[r]].mbc], MigOf(r)) = 1
       /\ (fpc[r] = "migrating" /\ fpc'[r] # "migrating") =>
            /\ req[MigOf(r)].n = 1
            /\ IF req[MigOf(r)].err = Nil
               THEN fpc'[r] = "push"
               ELSE /\ fpc'[r] = "done"
                    /\ req'[r].err = req[MigOf(r)].err
                    /\ dret'[r] = req[MigOf(r)].err
       /\ (PushedNow(r) \/ QueuedNow(r)) =>
            /\ fpc[r] \in {"forward", "push"}
            /\ MustMigrate(r) =>
                 (req[MigOf(r)].n = 1 /\ req[MigOf(r)].err = Nil)
       /\ (fpc[r] = "done" /\ dret[r] # Nil) =>
            (~PushedNow(r) /\ ~QueuedNow(r) /\ req'[r].n = 0)]_vars

\* C11 witness: a request is on its backend's input after its migration
\* request completed without error
C11_Witness ==
  \E r \in DispatchReqs :
    /\ fpc[r] = "done"
    /\ dret[r] = Nil
    /\ req[MigOf(r)].n = 1
    /\ req[MigOf(r)].err = Nil
    /\ \E c \in Conns : Occ(input[c], r) = 1

HeldBroken(r) ==
  /\ r # 0 /\ WriterHolds(r) /\ IsBroken(r)
  /\ \A k \in Rounds : Occ(wire[k], r) = 0

\* the step completes r, releasing its batch counter and its slot's wait
\* counter
CompletesReleasing(r) ==
  /\ req'[r].n = req[r].n + 1
  /\ req'[r].resp = 0
  /\ batch'[GroupOf(r)] = batch[GroupOf(r)] - 1
  /\ rslot[r] # NoSlot => wait'[rslot[r]] = wait[rslot[r]] - 1

\* C13 as stated: a request whose Broken flag is set when the writer takes
\* it is never encoded onto the backend connection; the writer completes it
\* with ErrDiscardedRequest and a nil Resp, decrementing its batch counter
\* and its slot's wait counter.
C13_Claimed_BrokenDiscarded ==
  [][HeldBroken(wr) =>
       /\ \A k \in Rounds : Occ(wire'[k], wr) = 0
       /\ req'[wr] # req[wr] =>
            /\ CompletesReleasing(wr)
            /\ req'[wr].err = ErrDiscardedRequest]_vars

\* C13, amended: a request whose Broken flag is set when the writer takes it
\* is never encoded onto the backend connection; the writer completes it
\* with a nil Resp and a non-nil error, decrementing its batch counter and
\* its slot's wait counter.  The error is ErrDiscardedRequest when the
\* writer goes on to its next receive, and otherwise the error that ends the
\* writer's round: the dial error when the connection could not be set up,
\* the flush error when flushing the earlier requests' bytes failed.
C13_BrokenNeverEncoded ==
  [][HeldBroken(wr) =>
       /\ \A k \in Rounds : Occ(wire'[k], wr) = 0
       /\ req'[wr] # req[wr] =>
            /\ CompletesReleasing(wr)
            /\ by'[wr] = Writer
            /\ req'[wr].err \in {ErrDiscardedRequest, DialErr, FlushErr}
            /\ req'[wr].err = ErrDiscardedRequest <=> wpc' = "recv"
            /\ req'[wr].err # ErrDiscardedRequest => werr' = req'[wr].err]_vars

\* a request with its Broken flag set was discarded by the writer, unencoded
C13_Witness ==
  \E r \in Reqs :
    /\ IsBroken(r) /\ by[r] = Writer
    /\ req[r] = [resp |-> 0, err |-> ErrDiscardedRequest, n |-> 1]
    /\ \A k \in Rounds : Occ(wire[k], r) = 0
    /\ rslot[r] # NoSlot /\ wait[rslot[r]] = 0 /\ batch[GroupOf(r)] = 0

\* the errors that end a writer round
WriterErrs == {DialErr, EncodeErr, FlushErr}

\* the writer's round has failed and its deferred drain is running
Draining == wpc = "drain"

\* what a failed writer round does with the requests queued in input, each
\* drained request being completed with ErrDiscardedRequest (discarded) or
\* with the writer's error
DrainsInputWith(discarded) ==
  \* the drain starts with a writer error and counts every queued request
  /\ ~Draining /\ Draining' =>
       werr' \in WriterErrs /\ wi' = Len(input'[BC])
  \* while it runs, input loses requests only at its head and only to the
  \* drain, which completes each, unsent, with a nil Resp and the error
  /\ Draining /\ Draining' =>
       /\ wi' <= Len(input'[BC]) /\ werr' = werr
       /\ \/ IsPrefix(input[BC], input'[BC]) /\ wi' = wi
          \/ /\ input[BC] # <<>> /\ input'[BC] = Tail(input[BC])
             /\ wi' = wi - 1
             /\ LET r == Head(input[BC]) IN
                  /\ req'[r] = [resp |-> 0, n |-> 1,
                                err |-> IF discarded THEN ErrDiscardedRequest
                                        ELSE werr]
                  /\ by'[r] = Writer
                  /\ \A k \in Rounds : Occ(wire'[k], r) = 0
  \* the next round starts only when all of them are completed
  /\ Draining /\ ~Draining' => wi = 0 /\ input'[BC] = input[BC]

\* C14 as stated: when the writer loop fails (dial, AUTH, encode or flush
\* error), every request that is still queued in input and was never sent on
\* the wire is completed with ErrDiscardedRequest.
C14_Claimed_QueuedDiscarded == [][DrainsInputWith(TRUE)]_vars

\* C14, amended: when the writer loop fails (dial, AUTH, encode or flush
\* error), every request that is queued in input at that moment is completed,
\* without being sent on the wire, with a nil Resp and the error that made
\* the writer loop fail.
C14_QueuedGetWriterError == [][DrainsInputWith(FALSE)]_vars

\* the drain has completed a queued request with the writer's error
C14_Witness ==
  /\ Draining /\ werr \in WriterErrs
  /\ \E r \in Reqs :
       /\ r # wr /\ by[r] = Writer
       /\ req[r] = [resp |-> 0, err |-> werr, n |-> 1]
       /\ \A k \in Rounds : Occ(wire[k], r) = 0

\* round k's reader has failed to decode a response
ReaderFailed(k) == rerr[k] # Nil

\* the requests round k's reader completed: the first ndec[k] with the
\* responses it decoded, every one after them with its read error
ReaderErrorSticks(k) ==
  LET q == TakenBy(completed, k) IN
    /\ ndec[k] <= Len(q)
    /\ \A i \in 1..Len(q) :
         IF i <= ndec[k]
         THEN req[q[i]].err = Nil /\ req[q[i]].resp # 0
         ELSE /\ ReaderFailed(k)
              /\ req[q[i]] = [resp |-> 0, err |-> rerr[k], n |-> 1]
    /\ ReaderFailed(k) => rpc[k] \in {"drain", "done"} /\ Len(q) > ndec[k]
    /\ rpc[k] = "done" => tasks[k] = <<>> /\ tasksClosed[k]

\* C15: when the backend reader fails to decode a response, the request it
\* was reading for and every request that is or later becomes queued in that
\* round's tasks channel are completed with that same read error and a nil
\* response (the reader ends only when tasks is closed and empty, and
\* nothing is queued in it afterwards); the reader never decodes another
\* response on that connection after the first error.
C15_ReaderErrorDrainsTasks ==
  /\ [](\A k \in Rounds : ReaderErrorSticks(k))
  /\ [][\A k \in Rounds :
         /\ ReaderFailed(k) => ndec'[k] = ndec[k] /\ rerr'[k] = rerr[k]
         /\ rpc[k] = "done" => tasks'[k] = <<>>]_vars

\* a reader decoded a response, failed on the next, and completed the request
\* it was reading for and a request queued behind it with the read error
C15_Witness ==
  \E k \in Rounds :
    /\ ReaderFailed(k) /\ rpc[k] = "done" /\ ndec[k] = 1
    /\ Len(TakenBy(completed, k)) = 3

\* r and q are sub-requests of one parent: they share Batch and Broken
Siblings(r, q) == r # q /\ GroupOf(r) = GroupOf(q) /\ HasBroken(GroupOf(r))

\* an error completion sets the shared flag, for the request and for its
\* siblings, and the flag is never reset; a completion releases the batch
\* counter the siblings share
BrokenFlagLatches ==
  /\ \A g \in Groups : broken[g] => broken'[g]
  /\ \A r \in Reqs :
       req'[r] # req[r] =>
         /\ batch'[GroupOf(r)] = batch[GroupOf(r)] - 1
         /\ req'[r].err # Nil /\ HasBroken(GroupOf(r)) =>
              /\ IsBroken(r)'
              /\ \A q \in Reqs : Siblings(r, q) => IsBroken(q)'

\* C16 as stated: whenever a request that carries a broken flag is completed
\* with a non-nil error, the flag is true afterwards and never returns to
\* false; sub-requests share the parent's flag and batch counter, so a
\* sub-request of the same parent that reaches a backend writer after the
\* flag was set is discarded with ErrDiscardedRequest instead of being sent.
C16_Claimed_LaterSubRequestDiscarded ==
  [][/\ BrokenFlagLatches
     /\ HeldBroken(wr) =>
          /\ \A k \in Rounds : Occ(wire'[k], wr) = 0
          /\ req'[wr] # req[wr] => req'[wr].err = ErrDiscardedRequest]_vars

\* C16, amended: whenever a request that carries a broken flag is completed
\* with a non-nil error, the flag is true afterwards and never returns to
\* false; sub-requests share the parent's flag and batch counter, so a
\* sub-request of the same parent that reaches a backend writer after the
\* flag was set is not sent: the writer completes it with a non-nil error,
\* which is ErrDiscardedRequest unless the writer's round ends at that
\* request with a dial or flush error.
C16_BrokenLatchesAndShortCircuits ==
  [][/\ BrokenFlagLatches
     /\ HeldBroken(wr) =>
          /\ \A k \in Rounds : Occ(wire'[k], wr) = 0
          /\ req'[wr] # req[wr] =>
               /\ req'[wr].resp = 0
               /\ \/ req'[wr].err = ErrDiscardedRequest
                  \/ req'[wr].err \in {DialErr, FlushErr} /\ wpc' # "recv"]_vars

\* a sub-request failed on the wire and its sibling, taken by the writer
\* afterwards, was discarded without being sent
C16_Witness ==
  \E r, q \in Reqs :
    /\ Siblings(r, q)
    /\ req[r].n = 1 /\ req[r].err \in {ReadErr, EncodeErr, FlushErr, DialErr}
    /\ req[q] = [resp |-> 0, err |-> ErrDiscardedRequest, n |-> 1]
    /\ Pos(completed, r) < Pos(completed, q)
    /\ by[q] = Writer /\ \A k \in Rounds : Occ(wire[k], q) = 0

\* the KeepAlive call has checked len(bc.input) and has not pushed yet
KeepAliveBetween == kpc = "push"

\* what one KeepAlive call does, whatever the other goroutines do meanwhile
KeepAliveCheckThenPush ==
  \* it decides on the length of input it reads, and enqueues nothing there
  /\ kpc = "idle" /\ kpc' # "idle" =>
       /\ input' = input
       /\ IF Len(input[BC]) = 0
          THEN KeepAliveBetween' /\ kret' = "none"
          ELSE kpc' = "done" /\ kret' = "false"
  \* having found input empty it enqueues exactly one PING, at the back of
  \* whatever input holds by then, and returns true
  /\ KeepAliveBetween /\ ~KeepAliveBetween' =>
       /\ kpc' = "done" /\ kret' = "true"
       /\ input'[BC] = Append(input[BC], KeepAliveReq)
  \* having returned, it does nothing more
  /\ kpc = "done" => kpc' = "done" /\ kret' = kret
  \* nobody else enqueues the PING
  /\ Occ(pushed', KeepAliveReq) = IF kret' = "true" THEN 1 ELSE 0

\* C17 as stated: BackendConn.KeepAlive enqueues exactly one PING request and
\* returns true if and only if input is empty; when input is non-empty it
\* enqueues nothing and returns false; this holds also when other goroutines
\* push onto input between KeepAlive's emptiness check and its push.
C17_Claimed_PingOnlyOntoEmptyInput ==
  [][/\ KeepAliveCheckThenPush
     /\ Occ(input'[BC], KeepAliveReq) > Occ(input[BC], KeepAliveReq) =>
          Len(input[BC]) = 0]_vars

\* C17, amended: BackendConn.KeepAlive enqueues exactly one PING request and
\* returns true if and only if input was empty when KeepAlive read its
\* length; when input was non-empty then, it enqueues nothing and returns
\* false.  Requests that other goroutines push between the check and the
\* push stay ahead of the PING, which is then enqueued onto a non-empty
\* input.
C17_PingIffInputWasEmpty == [][KeepAliveCheckThenPush]_vars

\* KeepAlive returned true and its PING sits in input behind a request that
\* was pushed between its check and its push
C17_Witness ==
  /\ kpc = "done" /\ kret = "true"
  /\ \E r \in Reqs : input[BC] = <<r, KeepAliveReq>>

\* Run has left its loop
RunExited == wpc = "exit"

\* C18: Run re-enters the writer loop after every failed round, keeping the
\* same input channel (the next round follows the drain of a failed one,
\* with input as the drain left it, and Run does not exit from there); it
\* exits only after Close has closed input and every queued request has
\* been taken from it; once Close is called Run eventually exits; and
\* calling Close more than once has no further effect.
C18_RunUntilClosed ==
  /\ [][/\ Draining /\ ~Draining' =>
            /\ wpc' = "recv0" /\ round' = round + 1
            /\ input' = input /\ stopped' = stopped
        /\ ~RunExited /\ RunExited' =>
            /\ stopped[BC] /\ input[BC] = <<>> /\ werr = Nil
            /\ wpc \in {"recv0", "recv"}
        /\ RunExited => RunExited'
        /\ stopped[BC] /\ nclose'[BC] # nclose[BC] =>
            UNCHANGED <<bvars, panicked>>]_vars
  /\ Draining ~> (wpc = "recv0")
  /\ stopped[BC] ~> RunExited

\* Close was called twice, Run has exited, and a round had failed before
C18_Witness ==
  /\ RunExited /\ nclose[BC] = 2 /\ round = 1
  /\ \E r \in Reqs : req[r].err = Nil /\ req[r].n = 1 /\ by[r] = 1

\* the decoder is called in this step
DecoderCalled == dncall' = dncall + 1

\* C19: once a Decode or DecodeMultiBulk call on a Decoder has returned an
\* error, every later Decode and DecodeMultiBulk call on that Decoder
\* returns ErrFailedDecoder and consumes no further input, so bytes
\* following a malformed frame are never interpreted as a new message.
C19_FailedDecoderRefuses ==
  [][dfailed /\ DecoderCalled =>
       /\ dlast'.err = ErrFailedDecoder
       /\ dlast'.val \in {NoResp, <<>>}
       /\ dpos' = dpos]_vars

\* a call failed on a malformed frame, a well-formed frame follows it in the
\* input, and a later call was refused without reading it
C19_Witness ==
  /\ dfailed /\ dncall >= 2
  /\ dlast.err = ErrFailedDecoder
  /\ dErr \notin {Nil, ErrEOF, ErrUnexpectedEOF}
  /\ dpos < Len(dstream)
  /\ decodeResp(dstream, dpos).err = Nil

\* the encoder is called in this step
EncoderCalled == encall' = encall + 1

\* C20: once an Encode, EncodeMultiBulk or Flush call on an Encoder has
\* failed, every later Encode, EncodeMultiBulk and Flush call on that
\* Encoder returns ErrFailedEncoder and writes nothing to the underlying
\* writer (nor into its buffer); a call that succeeds leaves the Encoder
\* usable: as long as no call has failed, no call is refused.
C20_FailedEncoderRefuses ==
  [][EncoderCalled =>
       IF efailed
       THEN /\ elast'.err = ErrFailedEncoder
            /\ ew' = ew
       ELSE /\ elast'.err # ErrFailedEncoder
            /\ elast'.err = Nil <=> eErr' = Nil]_vars

\* a call succeeded and reached the socket, a later call failed, and the
\* call after it was refused with bytes left in the buffer
C20_Witness ==
  /\ efailed /\ encall = 3
  /\ elast.err = ErrFailedEncoder
  /\ ew.out # <<>> /\ ew.buf # <<>>

(***************************************************************************)
(* Properties of the buffered Writer                                       *)
(***************************************************************************)
\* a call of the Writer that changes nothing of it, nor of the io.Writer
\* (no write, no byte taken into the buffer), and returns err
WriterRefuses(err) ==
  /\ wtr' = wtr
  /\ wlast'.err = err
  /\ wlast'.nn = 0

\* C21 as claimed: once a write to the underlying writer has failed or was
\* short, every later Write, WriteByte, WriteString and Flush returns the
\* stored error, writes nothing on the underlying writer and takes no byte
\* into the buffer
C21_Claimed_StickyAfterFailedOrShort ==
  [][(wtr.failed # {} /\ wncall' = wncall + 1)
       => (wtr.err # Nil /\ WriterRefuses(wtr.err))]_vars

\* C21 amended: the Writer stores an error exactly when a write of the
\* underlying writer returned an error or a flush wrote less than was
\* buffered; from then on every Write, WriteByte, WriteString and Flush
\* returns that error, writes nothing on the underlying writer and takes no
\* byte into the buffer.  A direct write of Write that is short and returns
\* no error stores nothing
C21_StickyOnceErrStored ==
  [][/\ (wtr.err # Nil) <=> (wtr.failed \cap {"err", "shortFlush"} # {})
     /\ (wtr.err # Nil /\ wncall' = wncall + 1) => WriterRefuses(wtr.err)
    ]_vars

\* a Write that found an error stored, after the underlying writer failed
\* one flush
C21_Witness ==
  /\ wlast.op = "Write"
  /\ wlast.pre # Nil
  /\ wtr.nwr = 1
  /\ wtr.buf # <<>>

(***************************************************************************)
(* Properties of the RESP codec                                            *)
(***************************************************************************)
\* C22: decoding the bytes Encode wrote for a well-formed value returns no
\* error and a value equal to the one encoded, and consumes exactly the
\* bytes written, whatever follows them
C22_DecodeInvertsEncode ==
  dncall = 1 =>
    /\ elast.err = Nil
    /\ dlast.err = Nil
    /\ dlast.val = farg[1]
    /\ dpos = Len(ew.out)

\* an array that holds a null array has made the trip, with bytes of the
\* next value behind it
C22_Witness ==
  /\ dncall = 1
  /\ dlast.err = Nil
  /\ dlast.val.type = TypeArray
  /\ dlast.val.array # <<>>
  /\ dlast.val.array[1] = NewResp(TypeArray, <<>>, <<>>, TRUE)
  /\ dpos < Len(dstream)

\* C23: decoding a bulk string or an array of length n: a length line
\* whose LF has no CR before it is rejected (bad CRLF); n < -1 is rejected
\* (bad length); n above the maximum is rejected (too long); n = -1 gives a
\* null value; n = 0 gives an empty one; n equal to the maximum passes the
\* length tests; and a bulk string then reads exactly n + 2 bytes and is
\* rejected (bad CRLF) unless the last two are CR LF
C23_LengthBoundaries ==
  dncall = 1 =>
    LET a == farg[1]
        bulk == a.type = TypeBulkBytes
        max == IF bulk THEN MaxBulkBytesLen ELSE MaxArrayLen
        hdr == LengthLine(a)
        lenErrs == {ErrBadRespBytesLen, ErrBadRespArrayLen,
                    ErrBadRespBytesLenTooLong, ErrBadRespArrayLenTooLong}
    IN  IF a.lfOnly THEN dlast.err = ErrBadRespCRLFEnd
        ELSE IF a.n < -1
        THEN dlast.err = (IF bulk THEN ErrBadRespBytesLen
                                  ELSE ErrBadRespArrayLen)
        ELSE IF a.n > max
        THEN dlast.err = (IF bulk THEN ErrBadRespBytesLenTooLong
                                  ELSE ErrBadRespArrayLenTooLong)
        ELSE IF a.n = -1
        THEN /\ dlast.err = Nil
             /\ dlast.val = NewResp(a.type, <<>>, <<>>, TRUE)
             /\ dpos = hdr
        ELSE IF ~bulk
        THEN /\ dlast.err \notin lenErrs
             /\ a.n = 0 =>
                  /\ dlast.err = Nil
                  /\ dlast.val = NewResp(TypeArray, <<>>, <<>>, FALSE)
                  /\ dpos = hdr
        ELSE IF Len(a.tail) < a.n + 2
        THEN /\ dlast.err \in {ErrEOF, ErrUnexpectedEOF}
             /\ dpos = Len(dstream)
        ELSE /\ dpos = hdr + a.n + 2
             /\ IF SubSeq(a.tail, a.n + 1, a.n + 2) = <<CR, LF>>
                THEN /\ dlast.err = Nil
                     /\ dlast.val = NewBulkBytes(SubSeq(a.tail, 1, a.n))
                ELSE dlast.err = ErrBadRespCRLFEnd

\* a bulk string of the maximal length has passed the length tests and
\* failed for want of input only
C23_Witness ==
  /\ dncall = 1
  /\ dlast.op = "Decode"
  /\ farg # <<>>
  /\ DOMAIN farg[1] = {"type", "n", "lfOnly", "tail"}
  /\ farg[1].type = TypeBulkBytes
  /\ farg[1].n = MaxBulkBytesLen
  /\ ~farg[1].lfOnly
  /\ dlast.err = ErrUnexpectedEOF

\* the places of line where a token starts, and the place where the token
\* that starts at i ends
TokenStarts(line) ==
  {i \in 1..Len(line) : line[i] # SP /\ (i = 1 \/ line[i - 1] = SP)}
TokenEnd(line, i) ==
  CHOOSE e \in i..Len(line) :
    /\ \A j \in i..e : line[j] # SP
    /\ e = Len(line) \/ line[e + 1] = SP
KthStart(line, k) ==
  CHOOSE i \in TokenStarts(line) :
    Cardinality({j \in TokenStarts(line) : j < i}) = k - 1

\* C24: DecodeMultiBulk returns an error or a non-empty list of bulk
\* strings.  A '*' frame of length <= 0 fails; one whose elements hold a
\* value that is no bulk string fails with ErrBadMultiBulkContent; otherwise
\* its elements are returned.  An input that does not start with '*' is one
\* line, and the list is its non-empty tokens between spaces, in order; a
\* line without token fails.
C24_MultiBulkOnlyBulk ==
  dncall = 1 =>
    LET a == farg[1]
        m == IF a.n < Len(a.elems) THEN a.n ELSE Len(a.elems)
        line == a.line
    IN  /\ dlast.err = Nil =>
             /\ dlast.val # <<>>
             /\ \A k \in 1..Len(dlast.val) :
                  dlast.val[k].type = TypeBulkBytes
        /\ a.kind = "frame" =>
             IF a.n <= 0 THEN dlast.err = ErrBadRespArrayLen
             ELSE IF \E k \in 1..m : a.elems[k].r.type # TypeBulkBytes
             THEN dlast.err = ErrBadMultiBulkContent
             ELSE IF Len(a.elems) < a.n
             THEN dlast.err \in {ErrEOF, ErrUnexpectedEOF}
             ELSE /\ dlast.err = Nil
                  /\ dlast.val = [k \in 1..a.n |-> a.elems[k].r]
                  /\ dpos = Len(MultiStream(a))
                            - Len(WireBytes(SubSeq(a.elems, a.n + 1,
                                                   Len(a.elems))))
        /\ a.kind = "inline" =>
             IF TokenStarts(line) = {} THEN dlast.err = ErrBadMultiBulkLen
             ELSE /\ dlast.err = Nil
                  /\ dlast.val =
                       [k \in 1..Cardinality(TokenStarts(line)) |->
                          NewBulkBytes(
                            SubSeq(line, KthStart(line, k),
                                   TokenEnd(line, KthStart(line, k))))]
                  /\ dpos = Len(line) + 2

\* a frame whose second element is an integer has been refused
C24_Witness ==
  /\ dncall = 1
  /\ dlast.op = "DecodeMultiBulk"
  /\ farg[1].kind = "frame"
  /\ farg[1].n = 2
  /\ Len(farg[1].elems) = 2
  /\ farg[1].elems[1].r.type = TypeBulkBytes
  /\ farg[1].elems[2].r.type = TypeInt
  /\ dlast.err = ErrBadMultiBulkContent

\* the non-empty tokens of line between spaces, in order, as bulk strings
InlineTokens(line) ==
  [k \in 1..Cardinality(TokenStarts(line)) |->
     NewBulkBytes(SubSeq(line, KthStart(line, k),
                         TokenEnd(line, KthStart(line, k))))]

\* C25 as claimed: an inline command that ends in LF alone is accepted and
\* gives the tokens the same line gives when it ends in CR LF
C25_Claimed_LFAloneAccepted ==
  (dncall = 1 /\ farg[1].lfOnly /\ TokenStarts(farg[1].line) # {}) =>
    /\ dlast.err = Nil
    /\ dlast.val = InlineTokens(farg[1].line)

\* C25: an inline command that ends in LF alone is refused with
\* ErrBadRespCRLFEnd and the decoder has failed; the same line ending in
\* CR LF gives its tokens
C25_LFAloneRefused ==
  dncall = 1 =>
    IF farg[1].lfOnly
    THEN /\ dlast.err = ErrBadRespCRLFEnd
         /\ dlast.val = <<>>
         /\ dErr = ErrBadRespCRLFEnd
    ELSE TokenStarts(farg[1].line) # {} =>
           /\ dlast.err = Nil
           /\ dlast.val = InlineTokens(farg[1].line)

\* a line of two tokens that ends in LF alone has been refused
C25_Witness ==
  /\ dncall = 1
  /\ dlast.op = "DecodeMultiBulk"
  /\ farg[1].lfOnly
  /\ Cardinality(TokenStarts(farg[1].line)) = 2
  /\ dlast.err = ErrBadRespCRLFEnd

(***************************************************************************)
(* Properties of the command classifier                                    *)
(***************************************************************************)
\* the bytes of key between its first '{' and the first '}' after it, or
\* key when there is no such pair
HashTag(key) ==
  IF \E i, j \in 1..Len(key) : i < j /\ key[i] = "{" /\ key[j] = "}"
  THEN LET i == CHOOSE i \in 1..Len(key) :
                  key[i] = "{" /\ \A h \in 1..(i - 1) : key[h] # "{"
           j == CHOOSE j \in (i + 1)..Len(key) :
                  key[j] = "}" /\ \A h \in (i + 1)..(j - 1) : key[h] # "}"
       IN  SubSeq(key, i + 1, j - 1)
  ELSE key

\* C26: hashSlot(k) is the checksum, modulo 1024, of the bytes between the
\* first '{' of k and the first '}' after it, and of all of k when there is
\* no such pair; it lies in 0..1023; and when the braces of "{" + k +
\* "}extra" enclose exactly k, hashSlot gives both keys the same slot
C26_HashSlotTag ==
  /\ Len(fres) >= 1 =>
       /\ fres[1] \in 0..1023
       /\ fres[1] = ModBits(ChecksumIEEE(HashTag(farg[1])), 1024, 32)
  /\ Len(fres) = 2 =>
       /\ fres[2] \in 0..1023
       /\ (\A i \in 1..Len(farg[1]) : farg[1][i] # "}") => fres[2] = fres[1]

\* both slots of a key that holds '{' and no '}' have been computed
C26_Witness ==
  /\ Len(fres) = 2
  /\ farg[1] = <<"a", "{", "b">>
  /\ fres[1] = 76
  /\ fres[2] = 76

\* C27 as claimed: no opcode is both refused as blacklisted and held by
\* the table of interned opcodes
C27_Claimed_TablesDisjoint ==
  fres # <<>> => ~(fres[1].notAllowed /\ fres[1].interned)

\* C27: the blacklist is not disjoint from the table of interned opcodes
\* but contained in it: an opcode is refused exactly when it is one of the
\* 48 blacklisted ones, and every opcode refused is interned as well
C27_BlacklistWithinInterned ==
  /\ Cardinality(blacklist) = 48
  /\ fres # <<>> =>
       /\ fres[1].notAllowed <=>
            farg[1] \in {"KEYS", "MOVE", "OBJECT", "RENAME", "RENAMENX",
                         "SCAN", "BITOP", "MSETNX", "MIGRATE", "RESTORE",
                         "BLPOP", "BRPOP", "BRPOPLPUSH", "PSUBSCRIBE",
                         "PUBLISH", "PUNSUBSCRIBE", "SUBSCRIBE", "RANDOMKEY",
                         "UNSUBSCRIBE", "DISCARD", "EXEC", "MULTI", "UNWATCH",
                         "WATCH", "SCRIPT", "BGREWRITEAOF", "BGSAVE",
                         "CLIENT", "CONFIG", "DBSIZE", "DEBUG", "FLUSHALL",
                         "FLUSHDB", "LASTSAVE", "MONITOR", "SAVE", "SHUTDOWN",
                         "SLAVEOF", "SLOWLOG", "SYNC", "TIME", "SLOTSINFO",
                         "SLOTSDEL", "SLOTSMGRTSLOT", "SLOTSMGRTONE",
                         "SLOTSMGRTTAGSLOT", "SLOTSMGRTTAGONE", "SLOTSCHECK"}
       /\ fres[1].notAllowed => fres[1].interned

\* KEYS has been classified: refused, and interned
C27_Witness ==
  /\ fres # <<>>
  /\ farg[1] = "KEYS"
  /\ fres[1].notAllowed
  /\ fres[1].interned

(***************************************************************************)
(* Properties of the buffered Reader                                       *)
(***************************************************************************)
\* C28: a ReadSlice2(delim, maxlen) that succeeds returns at most maxlen
\* bytes, whatever the size of the buffer, and has called ReadSlice at most
\* twice
C28_Claimed_SliceWithinMaxlen ==
  (rlast.op = "ReadSlice2" /\ rlast.err = Nil) =>
    /\ Len(rlast.b) <= rlast.maxlen
    /\ rlast.n <= 2

\* C29: a ReadBytes(delim) that succeeds returns the bytes of the stream
\* from the position it began at up to and including the first delim, and
\* leaves the Reader right after that delim; ReadSlice(delim) returns
\* ErrBufferFull exactly when it returns a full buffer without delim; and
\* the unread bytes of the buffer are always the bytes of the stream that
\* follow the position
C29_ReadBytesWholeLine ==
  LET st == rdr.stream
      p == rlast.pos
  IN  /\ SubSeq(rdr.buf, rdr.rpos + 1, rdr.wpos)
           = SubSeq(st, Reader_pos(rdr) + 1, rdr.off)
      /\ (rlast.op = "ReadBytes" /\ rlast.err = Nil) =>
           \E j \in (p + 1)..Len(st) :
             /\ st[j] = LF
             /\ \A h \in (p + 1)..(j - 1) : st[h] # LF
             /\ rlast.b = SubSeq(st, p + 1, j)
             /\ Reader_pos(rdr) = j
      /\ rlast.op = "ReadSlice" =>
           /\ rlast.err = ErrBufferFull
                <=> /\ Len(rlast.b) = ReaderSize
                    /\ \A i \in 1..Len(rlast.b) : rlast.b[i] # LF
           /\ rlast.err = ErrBufferFull =>
                /\ rlast.b = SubSeq(st, p + 1, p + ReaderSize)
                /\ Reader_pos(rdr) = p + ReaderSize

\* ReadBytes has returned a line more than twice as long as the buffer,
\* which the io.Reader delivered one byte at a time at first
C29_Witness ==
  /\ rlast.op = "ReadBytes"
  /\ rlast.err = Nil
  /\ Len(rlast.b) > 2 * ReaderSize
  /\ rdr.nrd > Len(rlast.b) \div ReaderSize + 1

(***************************************************************************)
(* Properties of the router, its data path and its backends                *)
(***************************************************************************)
\* what slot membership is made of: each slot's backend, migration source
\* and lock flag, the pool, and the reference counts
SlotMembership ==
  [slot |-> [s \in Slots |-> [addr |-> slots[s].addr, bc |-> slots[s].bc,
                              from |-> slots[s].from, mbc |-> slots[s].mbc,
                              hold |-> slots[s].hold]],
   pool |-> pool, refcnt |-> refcnt, nconn |-> nconn, caddr |-> caddr]

\* a step of Dispatch or of the forward it calls
DispatchStep == fpc' # fpc

\* a step of FillSlot or of Close
ControlStep ==
  \/ ctl.op \in {"FillSlot", "Close"}
  \/ ctl'.op \in {"FillSlot", "Close"}

\* C31: no step of Dispatch changes a slot's backend, migration source or
\* lock flag, the pool or a reference count; a step that changes one of
\* them is a step of FillSlot or of Close
C31_DispatchKeepsMembership ==
  [][/\ DispatchStep => SlotMembership' = SlotMembership
     /\ SlotMembership' # SlotMembership => ControlStep /\ ~DispatchStep]_vars

\* a request with a key went through a slot that has a migration source
\* and is on its way to the backend, whose connection two fields share
C31_Witness ==
  \E r \in DispatchReqs :
    /\ fpc[r] = "done"
    /\ dret[r] = Nil
    /\ req[MigOf(r)].n > 0
    /\ slots[fslot[r]].bc # NoConn
    /\ refcnt[slots[fslot[r]].bc] = 2

\* the flush step after an encode has returned nil
AfterFlushStep == fp.pc = "send"

\* C32: after an encode the buffer is flushed exactly when bc.input was
\* empty, or more than MaxBuffered requests were buffered, or the time since
\* the last write exceeded MaxIntervalMs; a flush resets the buffered count
\* and no flush leaves it; a request is handed to the reader only after its
\* encode and its flush step succeeded
C32_FlushPolicy ==
  /\ AfterFlushStep =>
       /\ fp.seen.wrote <=> \/ fp.seen.ninput = 0
                            \/ fp.seen.nbuffered > MaxBuffered
                            \/ fp.seen.since > MaxIntervalMs
       /\ fp.seen.wrote => fp.nbuffered = 0
       /\ ~fp.seen.wrote => fp.nbuffered = fp.seen.nbuffered
  /\ fp.r.handed => fp.r.encoded /\ fp.r.flushStep /\ ~fp.r.broken

\* the buffered count alone forced a flush: bc.input was not empty and the
\* interval had not passed
C32_Witness ==
  /\ AfterFlushStep
  /\ fp.seen.wrote
  /\ fp.seen.ninput > 0
  /\ fp.seen.since <= MaxIntervalMs
  /\ fp.seen.nbuffered = MaxBuffered + 1
  /\ fp.nbuffered = 0

\* C33: once Close has returned every slot is without backend and without
\* migration source, the pool is empty and every connection the router
\* created has been closed, once; a Close on the closed router returns nil
\* and changes neither the slots, the pool nor a connection
C33_CloseReleasesAll ==
  [][/\ closed' =>
          /\ \A s \in Slots :
               /\ slots'[s].addr = NoAddr /\ slots'[s].bc = NoConn
               /\ slots'[s].from = NoAddr /\ slots'[s].mbc = NoConn
          /\ \A a \in Addrs : pool'[a] = NoConn
          /\ \A c \in Conns :
               c <= nconn' => (stopped'[c] /\ nclose'[c] = 1 /\ refcnt'[c] = 0)
     /\ (closed /\ ret'.op = "Close") =>
          /\ ret'.err = Nil
          /\ UNCHANGED <<Membership, closed, ctl, input, wait>>]_vars

\* Close has returned on a router that had made two connections, a Dispatch
\* then found the router closed, and Close has returned again
C33_Witness ==
  /\ closed
  /\ ret.op = "Close"
  /\ nconn >= 2
  /\ \E r \in DispatchReqs : fclosed[r] /\ fpc[r] = "done"

\* a forward of r is under way
Forwarding(r) == fpc[r] \in {"forward", "migrating", "push"}

\* C34: no request is put onto the input of a stopped BackendConn, whatever
\* Dispatch, KeepAlive, FillSlot and Close do; the step that stops a
\* connection leaves no slot field and no pool entry holding it, and no
\* forward under way goes through a slot that held it
C34_NoPushAfterClose ==
  [][/\ ~panicked'
     /\ \A c \in Conns :
          /\ Len(input'[c]) > Len(input[c]) => ~stopped[c] /\ ~stopped'[c]
          /\ (stopped'[c] /\ ~stopped[c]) =>
               /\ RefsTo(c)' = 0
               /\ \A a \in Addrs : pool'[a] # c
               /\ \A r \in DispatchReqs :
                    Forwarding(r) => /\ slots[fslot[r]].bc # c
                                     /\ slots[fslot[r]].mbc # c]_vars

\* a connection was stopped, and a request dispatched through a slot whose
\* backend is a later connection to the same address waits on its input
C34_Witness ==
  \E c \in Conns, r \in DispatchReqs :
    /\ stopped[c]
    /\ fpc[r] = "done"
    /\ dret[r] = Nil
    /\ slots[fslot[r]].bc # NoConn
    /\ caddr[slots[fslot[r]].bc] = caddr[c]
    /\ Occ(input[slots[fslot[r]].bc], r) > 0

\* the writer is at the receive of its loop and bc.input is empty
WriterIdle == wpc = "recv" /\ input[BC] = <<>>

\* C35: while the writer waits at the receive of its loop with bc.input
\* empty, the flush policy counts no buffered request and every encoded
\* request of the round, those handed to the reader included, has reached
\* the socket
C35_IdleWriterHasFlushed ==
  WriterIdle =>
    /\ nbuffered = 0
    /\ flushed[round] = Len(wire[round])
    /\ \A i \in 1..Len(tasks[round]) : Occ(wire[round], tasks[round][i]) > 0

\* in a round that follows a failed one the writer waits with bc.input
\* empty after it encoded two requests, and the reader still holds one
C35_Witness ==
  /\ WriterIdle
  /\ ~stopped[BC]
  /\ Len(wire[round]) >= 2
  /\ tasks[round] # <<>>
  /\ \E k \in Rounds : k < round /\ wire[k] # <<>>

\* FillSlot or Close waits in blockAndWait while no request is on the input
\* of a backend and no forward is under way: nothing is left that could
\* complete a request
NothingLeftToComplete ==
  /\ ctl.pc = "wait"
  /\ \A c \in Conns : input[c] = <<>>
  /\ \A r \in DispatchReqs : ~Forwarding(r)

ReaderMethods == {"ReadByte", "PeekByte", "ReadSlice", "ReadBytes", "Read"}

\* C37: 0 <= rpos <= wpos <= len(buf) in every state of the Reader; once err
\* is set it stays as it is, and every later ReadByte, PeekByte, ReadSlice,
\* ReadBytes and Read returns it, returns no data and consumes none, also
\* with unread bytes in the buffer
C37_ReaderErrorIsSticky ==
  [][/\ 0 <= rdr'.rpos /\ rdr'.rpos <= rdr'.wpos /\ rdr'.wpos <= ReaderSize
     /\ rdr.err # Nil =>
          /\ rdr'.err = rdr.err
          /\ (rncall' # rncall /\ rlast'.op \in ReaderMethods) =>
               /\ rlast'.err = rdr.err
               /\ rlast'.b = <<>>
               /\ rdr' = rdr]_vars

\* Read was called with an unread byte in the buffer after the io.Reader
\* had failed, and returned the error
C37_Witness ==
  /\ rlast.op = "Read"
  /\ rlast.was = ReadErr
  /\ rlast.err = ReadErr
  /\ rlast.b = <<>>
  /\ buffered(rdr) > 0

\* the step is the return of op by Topom t
TopomReturns(t, op) == tp'.last.t = t /\ tp'.last.op = op

\* C38: at most one Topom is online and the lock node holds its model;
\* Start returns nil only to a Topom that is online then, as the holder of
\* the lock node; it fails while another Topom's lock node exists, returns
\* ErrClosedTopom on a closed Topom and changes nothing on an online one;
\* only the Close of the online holder removes the lock node; a closed Topom
\* stays closed and is never online again
C38_OneTopomOnline ==
  [][/\ Cardinality({t \in Topoms : IsOnline(t)'}) <= 1
     /\ \A t \in Topoms :
          /\ IsOnline(t)' => tp'.lock = t
          /\ (TopomReturns(t, "Start") /\ tp'.last.err = Nil) =>
               IsOnline(t)' /\ tp'.lock = t
          /\ (TopomReturns(t, "Start") /\ tp.lock \notin {NoTopom, t}) =>
               tp'.last.err # Nil /\ ~IsOnline(t)' /\ tp'.lock = tp.lock
          /\ (TopomReturns(t, "Start") /\ IsClosed(t)) =>
               tp'.last.err = ErrClosedTopom /\ tp'.of = tp.of
                 /\ tp'.lock = tp.lock
          /\ (TopomReturns(t, "Start") /\ IsOnline(t)) =>
               tp'.last.err = Nil /\ tp'.of = tp.of /\ tp'.lock = tp.lock
          /\ (tp.lock = t /\ tp'.lock # t) =>
               TopomReturns(t, "Close") /\ tp.of[t].online
          /\ IsClosed(t) => IsClosed(t)' /\ ~IsOnline(t)']_vars

\* a Topom is online after the one that was online before it has closed,
\* while a third one, never online, has closed as well
C38_Witness ==
  \E a, b, c \in Topoms :
    /\ IsOnline(a)
    /\ tp.of[b].online /\ IsClosed(b)
    /\ ~tp.of[c].online /\ IsClosed(c) /\ tp.of[c].pc = "idle"
    /\ tp.last = [t |-> a, op |-> "Start", err |-> Nil]

\* what a step on a closed EtcdClient does
ClosedEtcdClientStep ==
  /\ et'.closed
  /\ et'.ncancel = et.ncancel
  /\ et'.last.op \in (EtcdMethods \cup {"CreateEphemeral", "WatchInOrder"}) =>
       et'.last.err = ErrClosedEtcdClient /\ ~et'.last.contacted
  /\ et'.last.op = "Close" =>
       et'.last.err = Nil /\ et'.ref = et.ref /\ et'.signal = et.signal
  /\ \A i \in Refreshers : et.ref[i] = "none" => et'.ref[i] = "none"

\* refresher i runs
Refreshing(i) == et.ref[i] \in {"run", "return"}

\* C39: on a closed EtcdClient every method returns ErrClosedEtcdClient and
\* sends nothing to etcd, and Close returns nil, cancels nothing again and
\* changes nothing; every refresher that runs when the client is closed
\* stops and closes its signal channel
C39_ClosedEtcdClient ==
  /\ [][et.closed => ClosedEtcdClientStep]_vars
  /\ \A i \in Refreshers :
       (et.closed /\ Refreshing(i)) ~>
         (et.ref[i] = "stopped" /\ et.signal[i] = "closed")

\* both refreshers were stopped by ErrClosedEtcdClient and have closed their
\* signal channels, and a Create on the closed client has returned
C39_Witness ==
  /\ et.closed
  /\ \A i \in Refreshers :
       /\ et.ref[i] = "stopped"
       /\ et.signal[i] = "closed"
       /\ et.why[i] = ErrClosedEtcdClient
  /\ et.last = [op |-> "Create", err |-> ErrClosedEtcdClient,
                contacted |-> FALSE]

\* the integer a decimal representation stands for
ParseDecimal(a) ==
  IF a # <<>> /\ a[1] = "-" THEN 0 - DecVal(Tail(a)) ELSE DecVal(a)

\* a is a decimal representation: digits after an optional minus sign, no
\* leading zero, and no minus sign before zero
IsDecimal(a) ==
  IF a # <<>> /\ a[1] = "-"
  THEN /\ Len(a) >= 2
       /\ \A k \in 2..Len(a) : IsDigit(a[k])
       /\ a[2] # "0"
  ELSE /\ Len(a) >= 1
       /\ \A k \in 1..Len(a) : IsDigit(a[k])
       /\ Len(a) > 1 => a[1] # "0"

\* C40: itoxIndex(i) is i + 1024 for -1024 <= i < 131072 and -1 for every
\* other i, also where i + 1024 wraps; itoa(i) is the decimal
\* representation of i
C40_ItoaIsDecimal ==
  \A k \in 1..Len(fres) :
    /\ fres[k].idx = (IF farg[1] >= 0 - 1024 /\ farg[1] < 131072
                      THEN farg[1] + 1024 ELSE 0 - 1)
    /\ IsDecimal(fres[k].a)
    /\ ParseDecimal(fres[k].a) = farg[1]

\* itoa was called with the largest int64, for which i + 1024 wraps to a
\* negative number
C40_Witness ==
  /\ Len(fres) = 1
  /\ farg[1] = Int64Max
  /\ Int64(farg[1] + 1024) < 0
  /\ fres[1].idx = 0 - 1

====
